---- MODULE Spec2Model ----
(***************************************************************************)
(* A model of the wallet risk analysis pipeline: the report store          *)
(* (DataManager), the orchestrator (WalletRiskAnalyzer.analyzeWallet), the *)
(* three analyzers' reasoning-service paths and their deterministic        *)
(* fallbacks.                                                              *)
(*                                                                         *)
(* Conventions.  A JavaScript null / absent field is Null, an omitted      *)
(* optional argument is Undefined, a supplied one is Some(v).  Timestamps  *)
(* are milliseconds since the epoch: Date.toISOString keeps millisecond    *)
(* precision and new Date(iso) reads it back exactly, so an ISO string is  *)
(* represented by the millisecond count it denotes.  An address is the     *)
(* sequence of its characters.                                             *)
(***************************************************************************)
EXTENDS Integers, Sequences, FiniteSets, TLC

VARIABLES
    \* the orchestrator and the report store (one Node process)
    store,       \* file path -> stored report, or Null when no file exists
    now,         \* the clock, in milliseconds
    pc,          \* where the current analyzeWallet call stands
    req,         \* the arguments of the current call
    result,      \* what the call returned or threw
    walletData,  \* the report loaded at line 148, handed to the analyzers
    sub,         \* per analysis kind: the state of its run*Analysis task
    final,       \* whether generateFinalAnalysis has started, and what it computed
    did,         \* kinds of external effects the current call has performed
    view,        \* what the call saw when it started
    log,         \* per analysis kind: what this run has stored for it
    wfails,      \* the faults so far: failed store writes, analyzer exceptions
    runs,        \* analyzeWallet calls started, pipelines started
    \* a single call of a function: its arguments, what it returned
    arg, ret,
    \* the store as it was before the last update operation
    prev,
    \* a save and a load of one file by two processes
    writer, reader,
    \* one analyzer talking to the reasoning service
    narr,
    \* one fetchAllRawData against the provider, and how the run went on
    fetch

orchVars == <<store, now, pc, req, result, walletData, sub, final, did, view, log, wfails, runs>>
callVars == <<arg, ret>>
fileVars == <<writer, reader>>
auxVars == <<fetch>>
nonOrchVars == <<callVars, prev, fileVars, narr, auxVars>>
vars == <<orchVars, callVars, prev, fileVars, narr, auxVars>>

Null == [isNull |-> TRUE]
Undefined == [isUndefined |-> TRUE]
Some(v) == [val |-> v]

(***************************************************************************)
(* Bounds of the model.                                                    *)
(***************************************************************************)
MaxRuns == 2
MaxPipelines == 1
MaxDataIssues == 1
MaxWriteFailures == 1
MaxClockTicks == 3
\* minutes the clock advances in one tick
TickMinutes == 16

(***************************************************************************)
(* Program constants.                                                      *)
(***************************************************************************)
MsPerMinute == 60000
DefaultMaxAgeMinutes == 30
PlaceholderScore == 50

(***************************************************************************)
(* Addresses.                                                              *)
(***************************************************************************)
Rep(c, n) == [i \in 1..n |-> c]

Digits == {"0", "1", "2", "3", "4", "5", "6", "7", "8", "9"}
LowerHex == {"a", "b", "c", "d", "e", "f"}
UpperHex == {"A", "B", "C", "D", "E", "F"}
LowerLetters == LowerHex \cup {"g", "x", "z"}

AddrA == <<"0", "x">> \o Rep("a", 40)
AddrAMixed == <<"0", "x", "A">> \o Rep("a", 39)
AddrB == <<"0", "x">> \o Rep("b", 40)
AddrShort == <<"0", "x">> \o Rep("a", 39)
AddrLong == <<"0", "x">> \o Rep("a", 41)
AddrNonHex == <<"0", "x", "g">> \o Rep("a", 39)
AddrUpperPrefix == <<"0", "X">> \o Rep("a", 40)
AddrNoPrefix == Rep("a", 40)

WellFormed == {AddrA, AddrAMixed, AddrB}
Malformed == {AddrShort, AddrLong, AddrNonHex, AddrUpperPrefix, AddrNoPrefix}

\* /^0x[a-fA-F0-9]{40}$/ with the anchors dropped: any string holding a match
IsValidAddressUnanchored(address) ==
    \E s \in 0..(Len(address) - 42) :
        /\ address[s + 1] = "0"
        /\ address[s + 2] = "x"
        /\ \A i \in 3..42 : address[s + i] \in Digits \cup LowerHex \cup UpperHex

\* /^0x[a-fA-F0-9]{40}$/.test(address)
IsValidAddress(address) ==
    /\ Len(address) = 42
    /\ address[1] = "0"
    /\ address[2] = "x"
    /\ \A i \in 3..42 : address[i] \in Digits \cup LowerHex \cup UpperHex

\* String.prototype.toLowerCase on the characters the addresses use
LowerChar(c) ==
    CASE c = "A" -> "a" [] c = "B" -> "b" [] c = "C" -> "c"
      [] c = "D" -> "d" [] c = "E" -> "e" [] c = "F" -> "f"
      [] c = "X" -> "x" [] OTHER -> c

toLowerCase(s) == [i \in 1..Len(s) |-> LowerChar(s[i])]

IsLowerAlnum(c) == c \in Digits \cup LowerLetters

\* address.toLowerCase().replace(/[^a-z0-9]/g, '') names the report's file
getWalletFilePath(address) == SelectSeq(toLowerCase(address), IsLowerAlnum)

Paths == {getWalletFilePath(a) : a \in WellFormed \cup Malformed}

(***************************************************************************)
(* The report store (DataManager).  A file holds the JSON text of a        *)
(* report; "complete" is FALSE for a truncated text, which JSON.parse      *)
(* rejects.                                                                *)
(***************************************************************************)
Sources == {"zerion", "moralis", "dune"}
Kinds == {"assets", "pools", "protocols"}

FileOf(data) == [json |-> data, complete |-> TRUE]
Truncated(data) == [json |-> data, complete |-> FALSE]

\* no file: null; a text JSON.parse rejects: the catch returns null
loadWalletData(st, address) ==
    LET f == st[getWalletFilePath(address)]
    IN  IF f = Null THEN Null
        ELSE IF f.complete THEN f.json
        ELSE Null

createNewWalletData(address, t) ==
    [address |-> toLowerCase(address),
     last_updated |-> t,
     analysis_version |-> "2.0",
     raw_data |-> [s \in Sources |-> Null],
     analysis |-> [k \in Kinds |-> Null],
     final_analysis |-> Null]

\* a successful saveWalletData: stamps last_updated, writes the whole text
saveWalletData(st, data, t) ==
    [st EXCEPT ![getWalletFilePath(data.address)] =
        FileOf([data EXCEPT !.last_updated = t])]

\* let walletData = await loadWalletData(address); if (!walletData) create
loadOrCreate(st, address, t) ==
    LET wd == loadWalletData(st, address)
    IN  IF wd = Null THEN createNewWalletData(address, t) ELSE wd

\* updateRawData replacing the whole raw_data object
withRawDataOnly(wd, source, data) ==
    [wd EXCEPT !.raw_data = [s \in Sources |-> IF s = source THEN data ELSE Null]]

withRawData(wd, source, data) == [wd EXCEPT !.raw_data[source] = data]

withAnalysis(wd, analysisType, analysis, t) ==
    [wd EXCEPT !.analysis[analysisType] =
        [gpt_analysis |-> analysis.gpt_analysis,
         risk_score |-> analysis.risk_score,
         key_findings |-> analysis.key_findings,
         processed_at |-> t]]

withFinalAnalysis(wd, finalAnalysis, t) ==
    [wd EXCEPT !.final_analysis =
        [overall_risk_score |-> finalAnalysis.overall_risk_score,
         risk_level |-> finalAnalysis.risk_level,
         confidence_score |-> finalAnalysis.confidence_score,
         processed_at |-> t]]

\* shouldRefreshData with >= in place of >
shouldRefreshDataInclusive(wd, maxAgeMinutes, t) ==
    IF wd = Null THEN TRUE
    ELSE LET m == IF maxAgeMinutes = Undefined THEN DefaultMaxAgeMinutes
                  ELSE maxAgeMinutes.val
         IN  t - wd.last_updated >= m * MsPerMinute

\* diffMinutes > maxAgeMinutes, diffMinutes = (now - lastUpdated) / (1000 * 60)
shouldRefreshData(wd, maxAgeMinutes, t) ==
    IF wd = Null THEN TRUE
    ELSE LET m == IF maxAgeMinutes = Undefined THEN DefaultMaxAgeMinutes
                  ELSE maxAgeMinutes.val
         IN  t - wd.last_updated > m * MsPerMinute

(***************************************************************************)
(* JavaScript values as the reasoning service's JSON can hold them, with   *)
(* the operators the validation code applies to them.                      *)
(***************************************************************************)
JSUndef == [t |-> "undefined"]
JSStr(v) == [t |-> "string", str |-> v]
JSNum(n) == [t |-> "number", num |-> n]
JSObj == [t |-> "object"]

\* ToBoolean
Truthy(x) ==
    CASE x.t = "undefined" -> FALSE
      [] x.t = "string" -> x.str # ""
      [] x.t = "number" -> x.num # 0
      [] OTHER -> TRUE

Min(a, b) == IF a < b THEN a ELSE b
Max(a, b) == IF a > b THEN a ELSE b

RECURSIVE SumSeq(_)
SumSeq(s) == IF s = <<>> THEN 0 ELSE Head(s) + SumSeq(Tail(s))

(***************************************************************************)
(* What the three analyzers do with the text of a final reply (no tool     *)
(* calls): analyseAssets.ts 786-805, analyseProtocols.ts 598-614,          *)
(* analysePoolsGPT 424-440.  A content is Null (no content), or            *)
(* [parse |-> "error"] (not JSON), [parse |-> "null"] (the JSON null), or  *)
(* [parse |-> "object", gpt_analysis |-> v, risk_score |-> w].             *)
(***************************************************************************)

\* if (!response) throw; JSON.parse(response); property access on null throws;
\* if (!analysis.gpt_analysis || typeof analysis.risk_score !== 'number') throw
replyThrows(content) ==
    \/ content = Null
    \/ content.parse = "error"
    \/ content.parse = "null"
    \/ ~Truthy(content.gpt_analysis)
    \/ content.risk_score.t # "number"

\* the score of the reply passed on as it came
unclampedScore(s) == s

\* Math.min(100, Math.max(0, s)), and Math.max(0, Math.min(100, s))
clampScore(s) == Min(100, Max(0, s))

\* the result built from an accepted reply
acceptedResult(content) ==
    [gpt_analysis |-> content.gpt_analysis,
     risk_score |-> clampScore(content.risk_score.num),
     key_findings |-> "service"]

(***************************************************************************)
(* The deterministic asset scorer.  data.assets is the asset list, run-    *)
(* length encoded: entries [a |-> asset, n |-> how many such assets].      *)
(***************************************************************************)
ScamTokenQuantity == 2
EstablishedTokenWeight == -2
VerifiedTokenWeight == -1
TokenDiversityWeight == -1
OverDiversificationWeight == 1
AssetBaseScore == 40

\* the filter of lines 1043-1052
IsScamToken(a) ==
    /\ ~a.isEstablished
    /\ (a.possibleSpam \/ a.isLikelyAirdrop \/ a.scamPattern)

\* scamTokens.length * 2 whatever the share of dust
scamPenaltyNeverHalved(scamN, dustN) ==
    IF scamN > 0 THEN scamN * ScamTokenQuantity ELSE 0

\* lines 1060-1082: scamTokens.length * 2, times 0.5 when
\* dustTokens.length >= scamTokens.length * 0.8
scamPenalty(scamN, dustN) ==
    IF scamN > 0
    THEN IF 5 * dustN >= 4 * scamN
         THEN (scamN * ScamTokenQuantity) \div 2
         ELSE scamN * ScamTokenQuantity
    ELSE 0

\* the signed adjustments of lines 1059-1134, one per category
assetAdjustments(data) ==
    LET assets == data.assets
        cnt(f) == SumSeq([i \in 1..Len(assets) |-> IF f[i] THEN assets[i].n ELSE 0])
        scamN == cnt([i \in 1..Len(assets) |-> IsScamToken(assets[i].a)])
        dustN == cnt([i \in 1..Len(assets) |->
                        IsScamToken(assets[i].a) /\ assets[i].a.hasLowBalance])
        estN == cnt([i \in 1..Len(assets) |-> assets[i].a.isEstablished])
        verN == cnt([i \in 1..Len(assets) |->
                        assets[i].a.verified /\ ~assets[i].a.isEstablished])
        defiN == cnt([i \in 1..Len(assets) |-> assets[i].a.type = "defi"])
        meaningful == cnt([i \in 1..Len(assets) |->
                        ~assets[i].a.hasLowBalance /\ ~assets[i].a.isLikelyAirdrop])
    IN  [scam |-> scamPenalty(scamN, dustN),
         established |-> IF estN > 0 THEN EstablishedTokenWeight * estN ELSE 0,
         verified |-> IF verN > 0 THEN VerifiedTokenWeight * verN ELSE 0,
         diversity |->
            IF meaningful >= 5 /\ meaningful <= 20
            THEN TokenDiversityWeight * Min(10, meaningful)
            ELSE IF meaningful < 3 THEN 5 ELSE 0,
         overDiversification |->
            IF data.assetCount > 100
            THEN Min(15, (data.assetCount - 100) * OverDiversificationWeight)
            ELSE IF data.assetCount > 50 THEN 5 ELSE 0,
         multiChain |-> IF data.multiChain.totalChains > 1 THEN -3 ELSE 0,
         defi |-> IF defiN > 0 THEN -2 ELSE 0]

\* the sum of the signed adjustments, before the base and the clamp
assetBaseScore(data) ==
    LET adj == assetAdjustments(data)
    IN  adj.scam + adj.established + adj.verified + adj.diversity
            + adj.overDiversification + adj.multiChain + adj.defi

\* Math.max(0, Math.min(100, baseScore + 40))
calculateWeightedRiskScore(data) ==
    Max(0, Min(100, assetBaseScore(data) + AssetBaseScore))

\* the adjustments are whole numbers, so Math.round leaves the score as it is
generateFallbackAssetAnalysis(data) ==
    [gpt_analysis |-> JSStr("fallback"),
     risk_score |-> calculateWeightedRiskScore(data),
     key_findings |-> "deterministic"]

(***************************************************************************)
(* The pool analyzer's fallback.  data.protocols is the key set of         *)
(* protocolGroups.                                                         *)
(***************************************************************************)
PoolTier1 == {"aave", "compound", "makerdao", "uniswap", "curve", "lido"}
PoolTier2 == {"sushiswap", "balancer", "convex", "yearn", "synthetix", "1inch"}
PoolTier3 == {"pancakeswap", "quickswap", "spookyswap", "traderjoe", "frax"}
PoolBaseScore == 40

poolRawScore(data) ==
    LET protocols == data.protocols
        tier1Count == Cardinality(protocols \cap PoolTier1)
        unknownCount == Cardinality(protocols \ (PoolTier1 \cup PoolTier2 \cup PoolTier3))
    IN  PoolBaseScore
        + (IF tier1Count > 0 THEN -10 ELSE 0)
        + (IF unknownCount > 0 THEN unknownCount * 15 ELSE 0)
        + (IF Cardinality(protocols) = 1 THEN 20
           ELSE IF Cardinality(protocols) > 3 THEN -10 ELSE 0)

generateFallbackPoolAnalysis(data) ==
    [gpt_analysis |-> JSStr("fallback"),
     risk_score |-> Max(0, Min(100, poolRawScore(data))),
     key_findings |-> "deterministic"]

(***************************************************************************)
(* The protocol analyzer's fallback.  data.protocolCounts is the number of *)
(* keys of protocolCounts (at least 1 here), data.totalVolume is in USD.   *)
(***************************************************************************)
ProtocolBaseScore == 15

protocolRawScore(data) ==
    LET highRiskTxCount == data.riskTransactions
        \* averageTransactionValue = totalVolume / keys > 1000, < 100
        avgAbove1000 == data.totalVolume > 1000 * data.protocolCounts
        avgBelow100 == data.totalVolume < 100 * data.protocolCounts
    IN  ProtocolBaseScore
        + (IF highRiskTxCount > 0 THEN Min(highRiskTxCount * 15, 60) ELSE -5)
        + (IF data.uniqueProtocols > 5 THEN -5 ELSE 0)
        + (IF avgAbove1000 THEN 0 ELSE IF avgBelow100 THEN -3 ELSE 0)

generateFallbackProtocolAnalysis(data) ==
    [gpt_analysis |-> JSStr("fallback"),
     risk_score |-> Max(0, Min(100, protocolRawScore(data))),
     key_findings |-> "deterministic"]

(***************************************************************************)
(* The final aggregator.  A parsed reply of the reasoning service is a     *)
(* record of JavaScript values [overall_risk_score, risk_level,            *)
(* confidence_score]; scores are numbers or absent, the level is a string  *)
(* or absent.                                                              *)
(***************************************************************************)
RiskLevels == {"very-low", "low", "medium", "high", "very-high"}

\* a || b
OrElse(a, b) == IF Truthy(a) THEN a ELSE b

normalizeRiskLevel(input) ==
    IF input.t = "string" /\ input.str \in RiskLevels
    THEN input.str
    ELSE LET score == IF input.t = "number" THEN input.num ELSE 50
         IN  IF score <= 20 THEN "very-low"
             ELSE IF score <= 40 THEN "low"
             ELSE IF score <= 60 THEN "medium"
             ELSE IF score <= 80 THEN "high"
             ELSE "very-high"

validateAndNormalizeFinalAnalysis(analysis) ==
    [overall_risk_score |->
        Max(0, Min(100, OrElse(analysis.overall_risk_score, JSNum(50)).num)),
     risk_level |->
        normalizeRiskLevel(OrElse(analysis.risk_level,
                                  OrElse(analysis.overall_risk_score, JSNum(50)))),
     confidence_score |->
        Max(0, Min(100, OrElse(analysis.confidence_score, JSNum(50)).num)),
     origin |-> "service"]

\* Math.round of a non-negative quotient a / b
RoundDiv(a, b) == (2 * a + b) \div (2 * b)

\* the mean taken over all three kinds, an absent analysis counting as 0
fallbackAverageScoreOverAll(wd) ==
    LET order == <<"assets", "pools", "protocols">>
        scores == [i \in 1..3 |->
                     IF wd.analysis[order[i]] # Null
                     THEN wd.analysis[order[i]].risk_score ELSE 0]
    IN  RoundDiv(SumSeq(scores), 3)

\* lines 419-436: the scores of the analyses present, their rounded mean
fallbackAverageScore(wd) ==
    LET available == {k \in Kinds : wd.analysis[k] # Null}
        order == <<"assets", "pools", "protocols">>
        scores == [i \in 1..3 |->
                     IF order[i] \in available THEN wd.analysis[order[i]].risk_score ELSE 0]
        n == Cardinality(available)
    IN  IF n > 0 THEN RoundDiv(SumSeq(scores), n) ELSE 50

\* availableAnalyses.length * 25, neither floor nor ceiling applied
fallbackConfidenceUnclamped(n) == n * 25

\* line 438: Math.max(30, Math.min(70, availableAnalyses.length * 25))
fallbackConfidence(n) == Max(30, Min(70, n * 25))

generateFallbackFinalAnalysis(wd) ==
    LET averageScore == fallbackAverageScore(wd)
    IN  [overall_risk_score |-> averageScore,
         risk_level |-> normalizeRiskLevel(JSNum(averageScore)),
         confidence_score |->
             fallbackConfidence(Cardinality({k \in Kinds : wd.analysis[k] # Null})),
         origin |-> "deterministic"]

\* a reply of Null stands for every failure of the call or of JSON.parse
generateGPTFinalAnalysis(wd, reply) ==
    IF reply = Null
    THEN generateFallbackFinalAnalysis(wd)
    ELSE validateAndNormalizeFinalAnalysis(reply)

(***************************************************************************)
(* The reasoning-service side of the three analyzers.  A response of the   *)
(* service to one call is                                                  *)
(*   [kind |-> "error"]                the call rejects                    *)
(*   [kind |-> "nomessage"]            no choices[0].message               *)
(*   [kind |-> "tool", argsOk |-> b]   a message with tool calls, whose    *)
(*                                     arguments parse as JSON or not      *)
(*   [kind |-> "final", content |-> c] a message without tool calls        *)
(* and an outcome is [state, result, calls, rounds]: state "awaiting"      *)
(* while the next response has not arrived.                                *)
(***************************************************************************)
maxIterations == 5

\* currentIteration left as it is after a tool-call round
sameIteration(currentIteration) == currentIteration

\* currentIteration++
nextIteration(currentIteration) == currentIteration + 1

Returned(analysis, calls, rounds, origin) ==
    [state |-> "returned", result |-> analysis, calls |-> calls,
     rounds |-> rounds, origin |-> origin]

Awaiting(calls, rounds) ==
    [state |-> "awaiting", result |-> Null, calls |-> calls,
     rounds |-> rounds, origin |-> "none"]

\* a final content accepted although its narrative is no string is still "service"
RECURSIVE assetLoop(_, _, _, _, _)
assetLoop(data, responses, currentIteration, calls, rounds) ==
    IF ~(currentIteration < maxIterations)
    THEN Returned(generateFallbackAssetAnalysis(data), calls, rounds, "deterministic")
    ELSE IF responses = <<>>
    THEN Awaiting(calls, rounds)
    ELSE LET r == Head(responses)
         IN  IF r.kind = "error" \/ r.kind = "nomessage"
             THEN Returned(generateFallbackAssetAnalysis(data), calls + 1, rounds,
                           "deterministic")
             ELSE IF r.kind = "tool"
             THEN IF r.argsOk
                  THEN assetLoop(data, Tail(responses), nextIteration(currentIteration),
                                 calls + 1, rounds + 1)
                  ELSE Returned(generateFallbackAssetAnalysis(data), calls + 1, rounds,
                                "deterministic")
             ELSE IF replyThrows(r.content)
             THEN Returned(generateFallbackAssetAnalysis(data), calls + 1, rounds,
                           "deterministic")
             ELSE Returned(acceptedResult(r.content), calls + 1, rounds, "service")

generateGPTAssetAnalysis(data, responses) == assetLoop(data, responses, 0, 0, 0)

\* one call; the tool kinds do not occur as no tools are offered, a message
\* with neither content nor tool calls is a final response without content
generateGPTPoolAnalysis(data, responses) ==
    IF responses = <<>>
    THEN Awaiting(0, 0)
    ELSE LET r == Head(responses)
         IN  IF r.kind # "final" \/ replyThrows(r.content)
             THEN Returned(generateFallbackPoolAnalysis(data), 1, 0, "deterministic")
             ELSE Returned(acceptedResult(r.content), 1, 0, "service")

generateGPTProtocolAnalysis(data, responses) ==
    IF responses = <<>>
    THEN Awaiting(0, 0)
    ELSE LET r == Head(responses)
         IN  IF r.kind # "final" \/ replyThrows(r.content)
             THEN Returned(generateFallbackProtocolAnalysis(data), 1, 0, "deterministic")
             ELSE Returned(acceptedResult(r.content), 1, 0, "service")

NoPoolsScore == 0
NoProtocolsScore == 5

noPoolsResult ==
    [gpt_analysis |-> JSStr("no pools"), risk_score |-> NoPoolsScore,
     key_findings |-> "shortcut"]

noProtocolsResult ==
    [gpt_analysis |-> JSStr("no protocols"), risk_score |-> NoProtocolsScore,
     key_findings |-> "shortcut"]

\* the analyzers from the combined data on, up to the result handed to
\* updateAnalysis
analyzeWalletAssets(data, responses) == generateGPTAssetAnalysis(data, responses)

analyzeWalletPools(data, responses) ==
    IF data.positionCount = 0
    THEN Returned(noPoolsResult, 0, 0, "shortcut")
    ELSE generateGPTPoolAnalysis(data, responses)

\* enhanceProtocolDataWithSearch: one lookup for each of the first three
\* protocols of unknown risk
protocolsToSearch(data) == Min(3, data.unknownProtocols)

\* an outcome of the protocol analyzer, with the lookups made on the way
withLookups(out, n) ==
    [state |-> out.state, result |-> out.result, calls |-> out.calls,
     rounds |-> out.rounds, origin |-> out.origin, lookups |-> n]

\* the protocol analyzer without the branch of lines 139-154
analyzeWalletProtocolsNoShortcut(data, responses) ==
    withLookups(generateGPTProtocolAnalysis(data, responses), protocolsToSearch(data))

analyzeWalletProtocols(data, responses) ==
    IF data.interactions = 0
    THEN withLookups(Returned(noProtocolsResult, 0, 0, "shortcut"), 0)
    ELSE withLookups(generateGPTProtocolAnalysis(data, responses), protocolsToSearch(data))

analyze(kind, data, responses) ==
    CASE kind = "assets" -> analyzeWalletAssets(data, responses)
      [] kind = "pools" -> analyzeWalletPools(data, responses)
      [] kind = "protocols" -> analyzeWalletProtocols(data, responses)

\* the deterministic result of the analyzer of a kind
fallbackOf(kind, data) ==
    CASE kind = "assets" -> generateFallbackAssetAnalysis(data)
      [] kind = "pools" -> generateFallbackPoolAnalysis(data)
      [] kind = "protocols" -> generateFallbackProtocolAnalysis(data)

(***************************************************************************)
(* What the provider returns, as the combined data the analyzers derive    *)
(* from it: the asset list, the DeFi positions by protocol, the protocol   *)
(* interactions.                                                           *)
(***************************************************************************)
NativeAsset ==
    [type |-> "native", isEstablished |-> TRUE, verified |-> TRUE,
     possibleSpam |-> FALSE, isLikelyAirdrop |-> FALSE, hasLowBalance |-> FALSE,
     scamPattern |-> FALSE]

DustAirdrop ==
    [type |-> "token", isEstablished |-> FALSE, verified |-> FALSE,
     possibleSpam |-> TRUE, isLikelyAirdrop |-> TRUE, hasLowBalance |-> TRUE,
     scamPattern |-> FALSE]

TotalChains == 3

EmptyPoolData == [protocols |-> {}, positionCount |-> 0]

EmptyProtocolData ==
    [interactions |-> 0, riskTransactions |-> 0, uniqueProtocols |-> 0,
     unknownProtocols |-> 0, protocolCounts |-> 0, totalVolume |-> 0]

ActiveWallet ==
    [assetData |-> [assets |-> <<[a |-> NativeAsset, n |-> 1], [a |-> DustAirdrop, n |-> 4]>>,
                    assetCount |-> 5,
                    multiChain |-> [totalChains |-> TotalChains]],
     poolData |-> [protocols |-> {"aave", "shadyfarm"}, positionCount |-> 2],
     protocolData |-> [interactions |-> 3, riskTransactions |-> 1, uniqueProtocols |-> 2,
                       unknownProtocols |-> 1, protocolCounts |-> 2, totalVolume |-> 12000]]

\* tokens and protocol interactions, no DeFi position
TokenWallet == [ActiveWallet EXCEPT !.poolData = EmptyPoolData]

MoralisBlobs == {TokenWallet}

\* analyzeWalletAssets stores the balances it fetched itself, without DeFi
\* positions and transactions
assetOnly(blob) ==
    [blob EXCEPT !.poolData = EmptyPoolData, !.protocolData = EmptyProtocolData]

dataFor(kind, blob) ==
    CASE kind = "assets" -> blob.assetData
      [] kind = "pools" -> blob.poolData
      [] kind = "protocols" -> blob.protocolData

HasMoralis(wd) == wd # Null /\ wd.raw_data["moralis"] # Null

\* the service's behaviour in the orchestrator's runs
GoodContent ==
    [parse |-> "object", gpt_analysis |-> JSStr("narrative"),
     risk_score |-> JSNum(72)]

MainResponses ==
    {<<[kind |-> "error"]>>,
     <<[kind |-> "final", content |-> GoodContent]>>,
     <<[kind |-> "tool", argsOk |-> TRUE], [kind |-> "final", content |-> GoodContent]>>}

FinalReplies ==
    {Null,
     [overall_risk_score |-> JSNum(65), risk_level |-> JSUndef,
      confidence_score |-> JSNum(80)]}

placeholder ==
    [gpt_analysis |-> JSStr("analysis failed due to data issues"),
     risk_score |-> PlaceholderScore,
     key_findings |-> "Analysis incomplete"]

formatResult(wd) ==
    [address |-> wd.address,
     analysis_complete |-> wd.final_analysis # Null,
     final_analysis |-> wd.final_analysis,
     individual_analyses |-> wd.analysis,
     last_updated |-> wd.last_updated]

Ok(wd, cached) == [kind |-> "ok", cached |-> cached, report |-> formatResult(wd)]
Failed(stage) == [kind |-> "error", stage |-> stage]

\* options.maxAgeMinutes || 30
maxAgeOrDefault(maxAgeMinutes) ==
    IF maxAgeMinutes = Undefined \/ maxAgeMinutes.val = 0
    THEN Some(DefaultMaxAgeMinutes)
    ELSE maxAgeMinutes

\* the three tasks awaited by one Promise.all: any of them has stored
PromiseAnySettled(s) == \E k \in Kinds : s[k].pc = "done"

\* await Promise.all([...]) resumes when every task has resolved
PromiseAllSettled(s) == \A k \in Kinds : s[k].pc = "done"

IdleSub == [pc |-> "idle", data |-> Null, res |-> Null, snap |-> Null]
\* a task that has ended holds nothing any more
EndedSub(how) == [pc |-> how, data |-> Null, res |-> Null, snap |-> Null]
Quiescent(s) == \A k \in Kinds : s[k].pc \in {"idle", "done", "failed"}

\* how the next writeFileSync may end: it writes the whole text, or throws
\* before the file is touched, or throws after the file was truncated and
\* part of the text written
WriteOutcomes ==
    IF wfails.total < MaxWriteFailures THEN {"ok", "unchanged", "truncated"} ELSE {"ok"}

\* saveWalletData under an outcome of its writeFileSync
writeWalletData(st, data, t, w) ==
    CASE w = "ok" -> saveWalletData(st, data, t)
      [] w = "unchanged" -> st
      [] w = "truncated" ->
           [st EXCEPT ![getWalletFilePath(data.address)] =
                         Truncated([data EXCEPT !.last_updated = t])]

noteFailure(w) ==
    IF w # "ok" THEN [wfails EXCEPT !.total = @ + 1, !.run = TRUE] ELSE wfails

MainAddresses == {AddrAMixed, AddrShort, AddrLong, AddrNonHex}
MaxAges == {Undefined, Some(0), Some(40)}
\* the options objects of the calls: a maximum age matters only without
\* forceRefresh
Options ==
    {[forceRefresh |-> FALSE, maxAgeMinutes |-> m] : m \in MaxAges}
        \cup {[forceRefresh |-> TRUE, maxAgeMinutes |-> Undefined]}

(***************************************************************************)
(* The orchestrator: WalletRiskAnalyzer.analyzeWallet in one Node process, *)
(* one call at a time.                                                     *)
(***************************************************************************)
OrchInit ==
    /\ store = [p \in Paths |-> Null]
    /\ now = 0
    /\ pc = "idle"
    /\ req = Null
    /\ result = Null
    /\ walletData = Null
    /\ sub = [k \in Kinds |-> IdleSub]
    /\ final = [started |-> FALSE, analysis |-> Null]
    /\ did = {}
    /\ view = [existing |-> Null, t0 |-> 0, decided |-> FALSE, cached |-> FALSE]
    /\ log = [k \in Kinds |-> "none"]
    /\ wfails = [total |-> 0, run |-> FALSE, issues |-> 0]
    /\ runs = [calls |-> 0, pipelines |-> 0]

Init ==
    /\ OrchInit
    /\ arg = Null
    /\ ret = Null
    /\ prev = Null
    /\ writer = Null
    /\ reader = Null
    /\ narr = Null
    /\ fetch = Null

\* lines 115-142: validation, the load, the decision to serve the stored report
AnalyzeStart(address, forceRefresh, maxAgeMinutes) ==
    /\ pc = "idle"
    /\ Quiescent(sub)
    /\ runs.calls < MaxRuns
    /\ runs' = [runs EXCEPT !.calls = @ + 1]
    /\ req' = [address |-> address, forceRefresh |-> forceRefresh,
               maxAgeMinutes |-> maxAgeMinutes]
    /\ sub' = [k \in Kinds |-> IdleSub]
    /\ final' = [started |-> FALSE, analysis |-> Null]
    /\ log' = [k \in Kinds |-> "none"]
    /\ wfails' = [wfails EXCEPT !.run = FALSE]
    /\ walletData' = Null
    /\ IF ~IsValidAddress(address)
       THEN /\ result' = Failed("validation")
            /\ pc' = "idle"
            /\ did' = {}
            /\ view' = [existing |-> Null, t0 |-> now, decided |-> FALSE, cached |-> FALSE]
       ELSE LET existingData == loadWalletData(store, address)
                shouldRefresh ==
                    \/ forceRefresh
                    \/ shouldRefreshData(existingData, maxAgeOrDefault(maxAgeMinutes), now)
                cached == ~shouldRefresh /\ existingData.final_analysis # Null
            IN  /\ did' = {"load"}
                /\ view' = [existing |-> existingData, t0 |-> now, decided |-> TRUE,
                            cached |-> cached]
                /\ IF cached
                   THEN /\ result' = Ok(existingData, TRUE)
                        /\ pc' = "idle"
                   ELSE /\ result' = Null
                        /\ pc' = "fetch"
    /\ UNCHANGED <<store, now>>
    /\ UNCHANGED nonOrchVars

\* lines 145-148: fetchAllRawData, whose catch swallows a failed write, then
\* the load of the report handed to the analyzers
FetchAllRawData ==
    /\ pc = "fetch"
    /\ runs.pipelines < MaxPipelines
    /\ runs' = [runs EXCEPT !.pipelines = @ + 1]
    /\ \E blob \in MoralisBlobs, w \in WriteOutcomes :
         LET address == req.address
             wd == loadOrCreate(store, address, now)
             written == writeWalletData(store, withRawData(wd, "moralis", blob), now, w)
             loaded == loadWalletData(written, address)
         IN  /\ store' = written
             /\ wfails' = noteFailure(w)
             /\ walletData' = loaded
             /\ sub' = [k \in Kinds |->
                          [pc |-> "start",
                           data |-> IF HasMoralis(loaded)
                                    THEN dataFor(k, loaded.raw_data["moralis"])
                                    ELSE IF k = "protocols" THEN EmptyProtocolData
                                    ELSE Null,
                           res |-> Null, snap |-> Null]]
    /\ did' = did \cup {"provider", "write"}
    /\ pc' = "analyze"
    /\ UNCHANGED <<now, req, result, final, view, log>>
    /\ UNCHANGED nonOrchVars

\* analyzeWalletAssets / analyzeWalletPools without pre-fetched data: they
\* fetch themselves, and the asset analyzer stores what it fetched
SubFetchFresh(k) ==
    /\ sub[k].pc = "start"
    /\ sub[k].data = Null
    /\ \E blob \in MoralisBlobs, w \in WriteOutcomes :
         IF k = "assets"
         THEN LET wd == loadOrCreate(store, req.address, now)
                  written == writeWalletData(store,
                               withRawData(wd, "moralis", assetOnly(blob)), now, w)
              IN  /\ did' = did \cup {"provider", "write"}
                  /\ wfails' = noteFailure(w)
                  /\ store' = written
                  /\ IF w # "ok"
                     THEN sub' = [sub EXCEPT ![k] =
                                    [pc |-> "placeholder", data |-> Null,
                                     res |-> placeholder,
                                     snap |-> loadOrCreate(written, req.address, now)]]
                     ELSE sub' = [sub EXCEPT ![k].data = dataFor(k, blob)]
         ELSE /\ w = "ok"
              /\ did' = did \cup {"provider"}
              /\ sub' = [sub EXCEPT ![k].data = dataFor(k, blob)]
              /\ UNCHANGED <<store, wfails>>
    /\ UNCHANGED <<now, pc, req, result, walletData, final, view, log, runs>>
    /\ UNCHANGED nonOrchVars

\* the analyzer up to its call of updateAnalysis, whose load runs at once
SubAnalyze(k) ==
    /\ sub[k].pc = "start"
    /\ sub[k].data # Null
    /\ \E responses \in MainResponses \cup {<<>>} :
         LET out == analyze(k, sub[k].data, responses)
         IN  /\ out.state = "returned"
             /\ out.calls = Len(responses)
             /\ sub' = [sub EXCEPT ![k] =
                          [pc |-> "saving", data |-> sub[k].data, res |-> out.result,
                           snap |-> loadOrCreate(store, req.address, now)]]
             /\ did' = did \cup {"load"}
                           \cup (IF out.calls > 0 THEN {"reasoning"} ELSE {})
                           \cup (IF out.rounds > 0 THEN {"lookup"} ELSE {})
    /\ UNCHANGED <<store, now, pc, req, result, walletData, final, view, log, wfails, runs>>
    /\ UNCHANGED nonOrchVars

\* the analyzer throws on the data it was given; run*Analysis catches and
\* calls updateAnalysis with the placeholder
SubThrows(k) ==
    /\ sub[k].pc = "start"
    /\ sub[k].data # Null
    /\ wfails.issues < MaxDataIssues
    /\ wfails' = [wfails EXCEPT !.issues = @ + 1]
    /\ sub' = [sub EXCEPT ![k] =
                 [pc |-> "placeholder", data |-> sub[k].data, res |-> placeholder,
                  snap |-> loadOrCreate(store, req.address, now)]]
    /\ did' = did \cup {"load"}
    /\ UNCHANGED <<store, now, pc, req, result, walletData, final, view, log, runs>>
    /\ UNCHANGED nonOrchVars

\* updateAnalysis after its await: set the field, save; a failed save lands
\* in run*Analysis's catch, which starts updateAnalysis with the placeholder
SubSave(k) ==
    /\ sub[k].pc = "saving"
    /\ \E w \in WriteOutcomes :
         LET written == writeWalletData(store,
                          withAnalysis(sub[k].snap, k, sub[k].res, now), now, w)
         IN  /\ wfails' = noteFailure(w)
             /\ store' = written
             /\ IF w # "ok"
                THEN /\ log' = log
                     /\ sub' = [sub EXCEPT ![k] =
                                  [pc |-> "placeholder", data |-> sub[k].data,
                                   res |-> placeholder,
                                   snap |-> loadOrCreate(written, req.address, now)]]
                ELSE /\ log' = [log EXCEPT ![k] = "result"]
                     /\ sub' = [sub EXCEPT ![k] = EndedSub("done")]
    /\ did' = did \cup {"write"}
    /\ UNCHANGED <<now, pc, req, result, walletData, final, view, runs>>
    /\ UNCHANGED nonOrchVars

\* run*Analysis without its catch: the analyzer's error rejects the task
SubPlaceholderRejects(k) ==
    /\ sub[k].pc = "placeholder"
    /\ sub' = [sub EXCEPT ![k] = EndedSub("failed")]
    /\ UNCHANGED <<store, now, pc, req, result, walletData, final, did, view, log, wfails, runs>>
    /\ UNCHANGED nonOrchVars

\* the placeholder's updateAnalysis after its await; a failed save rejects
\* the task
SubPlaceholderSave(k) ==
    /\ sub[k].pc = "placeholder"
    /\ \E w \in WriteOutcomes :
         /\ wfails' = noteFailure(w)
         /\ store' = writeWalletData(store,
                        withAnalysis(sub[k].snap, k, placeholder, now), now, w)
         /\ IF w # "ok"
            THEN /\ log' = log
                 /\ sub' = [sub EXCEPT ![k] = EndedSub("failed")]
            ELSE /\ log' = [log EXCEPT ![k] = "placeholder"]
                 /\ sub' = [sub EXCEPT ![k] = EndedSub("done")]
    /\ did' = did \cup {"write"}
    /\ UNCHANGED <<now, pc, req, result, walletData, final, view, runs>>
    /\ UNCHANGED nonOrchVars

\* Promise.all rejects with the first rejected task; analyzeWallet's catch
\* rethrows, the other tasks run on
PromiseAllReject ==
    /\ pc = "analyze"
    /\ \E k \in Kinds : sub[k].pc = "failed"
    /\ result' = Failed("analysis")
    /\ pc' = "idle"
    /\ walletData' = Null
    /\ UNCHANGED <<store, now, req, sub, final, did, view, log, wfails, runs>>
    /\ UNCHANGED nonOrchVars

\* lines 156-164: generateFinalAnalysis (load, service call or fallback,
\* updateFinalAnalysis), the last load and formatResult
GenerateFinalAnalysis ==
    /\ pc = "analyze"
    /\ PromiseAllSettled(sub)
    /\ LET address == req.address
           wd == loadWalletData(store, address)
       IN  IF wd = Null
           THEN /\ result' = Failed("final")
                /\ final' = [started |-> TRUE, analysis |-> Null]
                /\ did' = did \cup {"load"}
                /\ UNCHANGED <<store, wfails>>
           ELSE \E reply \in FinalReplies, w \in WriteOutcomes :
                  LET finalAnalysis == generateGPTFinalAnalysis(wd, reply)
                      written == writeWalletData(store,
                                   withFinalAnalysis(wd, finalAnalysis, now), now, w)
                  IN  /\ final' = [started |-> TRUE, analysis |-> finalAnalysis]
                      /\ did' = did \cup {"load", "reasoning", "write"}
                      /\ wfails' = noteFailure(w)
                      /\ store' = written
                      /\ result' = IF w # "ok" THEN Failed("final")
                                   ELSE Ok(loadWalletData(written, address), FALSE)
    /\ pc' = "idle"
    /\ walletData' = Null
    /\ UNCHANGED <<now, req, sub, view, log, runs>>
    /\ UNCHANGED nonOrchVars

\* time passes between calls; the first call is the origin of the clock
Tick ==
    /\ pc = "idle"
    /\ Quiescent(sub)
    /\ runs.calls > 0
    /\ runs.calls < MaxRuns
    /\ now < MaxClockTicks * TickMinutes * MsPerMinute
    /\ now' = now + TickMinutes * MsPerMinute
    /\ UNCHANGED <<store, pc, req, result, walletData, sub, final, did, view, log, wfails, runs>>
    /\ UNCHANGED nonOrchVars

Next ==
    \/ \E address \in MainAddresses, options \in Options :
         AnalyzeStart(address, options.forceRefresh, options.maxAgeMinutes)
    \/ FetchAllRawData
    \/ \E k \in Kinds : SubFetchFresh(k)
    \/ \E k \in Kinds : SubAnalyze(k)
    \/ \E k \in Kinds : SubThrows(k)
    \/ \E k \in Kinds : SubSave(k)
    \/ \E k \in Kinds : SubPlaceholderSave(k)
    \/ PromiseAllReject
    \/ GenerateFinalAnalysis
    \/ Tick

Spec == Init /\ [][Next]_vars

(***************************************************************************)
(* Properties of the orchestrator (specification Spec).                    *)
(***************************************************************************)

\* C1: analyzeWallet returns the stored report, without any fetch,
\* sub-analysis, final analysis or store write, exactly when forceRefresh is
\* not set, a report is stored, its age is at most the caller's
\* maxAgeMinutes (30 when none is given) and it has a final analysis;
\* otherwise the pipeline runs.
C1_CachedExactlyWhenFresh ==
    view.decided =>
        LET claimedMaxAge == IF req.maxAgeMinutes = Undefined
                             THEN DefaultMaxAgeMinutes
                             ELSE req.maxAgeMinutes.val
            fresh == /\ ~req.forceRefresh
                     /\ view.existing # Null
                     /\ view.t0 - view.existing.last_updated <= claimedMaxAge * MsPerMinute
                     /\ view.existing.final_analysis # Null
        IN  /\ view.cached <=> fresh
            /\ view.cached =>
                 /\ result = Ok(view.existing, TRUE)
                 /\ did = {"load"}
                 /\ pc = "idle"
            /\ (~view.cached /\ pc = "idle" /\ result # Null /\ result.kind = "ok")
                 => {"provider", "write"} \subseteq did /\ final.started

\* C3: generateFinalAnalysis starts only after each of the asset, pool and
\* protocol analyses has stored its result, or has failed and had the
\* placeholder stored for it.
C3_FinalAfterAllStored ==
    final.started =>
        \A k \in Kinds : log[k] \in {"result", "placeholder"} /\ sub[k].pc = "done"

\* the final analysis has started in a run where one analysis stored the
\* placeholder and another its own result
C3_Witness ==
    /\ final.started
    /\ \E k \in Kinds : log[k] = "placeholder"
    /\ \E k \in Kinds : log[k] = "result"

\* C6: when a store write of a run fails, at whichever stage, analyzeWallet
\* fails with an error: it returns no result after a write of that run failed.
C6_NoResultAfterFailedWrite ==
    (result # Null /\ result.kind = "ok" /\ ~result.cached) => ~wfails.run

\* C10: a call whose address is not "0x" followed by exactly 40 hexadecimal
\* digits fails with an error before any load, any provider, reasoning-service
\* or lookup call and any store write.
C10_MalformedRejectedFirst ==
    /\ \A a \in Malformed : ~IsValidAddress(a)
    /\ (req # Null /\ req.address \in Malformed) =>
          /\ result = Failed("validation")
          /\ did = {}
          /\ pc = "idle"
          /\ \A k \in Kinds : sub[k].pc = "idle"

\* a call with 41 hexadecimal digits has been rejected while a report of an
\* earlier run is stored under the path the address maps to a prefix of
C10_Witness ==
    /\ req # Null
    /\ req.address = AddrLong
    /\ result = Failed("validation")
    /\ \E p \in Paths : store[p] # Null

\* C25: no sub-analysis written during a run is lost: when the three
\* analyses of a run have each stored their result through updateAnalysis,
\* the report the final aggregator reads contains all three, under every
\* interleaving of their load and save steps.
C25_NoSubAnalysisLost ==
    (pc = "analyze" /\ PromiseAllSettled(sub) /\ \A k \in Kinds : log[k] = "result") =>
        LET wd == loadWalletData(store, req.address)
        IN  /\ wd # Null
            /\ \A k \in Kinds : wd.analysis[k] # Null

\* a continuation of the run that is ready: the promise it awaits has
\* settled
RunStep ==
    \/ FetchAllRawData
    \/ \E k \in Kinds : SubFetchFresh(k)
    \/ \E k \in Kinds : SubAnalyze(k)
    \/ \E k \in Kinds : SubSave(k)
    \/ \E k \in Kinds : SubPlaceholderSave(k)
    \/ PromiseAllReject
    \/ GenerateFinalAnalysis

\* one call for a well-formed address, or a step of its run
NextLive ==
    \/ \E options \in Options :
         AnalyzeStart(AddrAMixed, options.forceRefresh, options.maxAgeMinutes)
    \/ RunStep
    \/ \E k \in Kinds : SubThrows(k)

\* ENABLED <<RunStep>>_vars as a state predicate: the guards of the steps of
\* RunStep, each of which has an outcome that changes the state
runStepReady ==
    \/ pc = "fetch" /\ runs.pipelines < MaxPipelines
    \/ \E k \in Kinds : sub[k].pc \in {"start", "saving", "placeholder"}
    \/ /\ pc = "analyze"
       /\ \/ \E k \in Kinds : sub[k].pc = "failed"
          \/ PromiseAllSettled(sub)

\* weak fairness of RunStep, WF_vars(RunStep), with its enabling condition
\* written as runStepReady: the event loop goes on as long as a continuation
\* is ready
WeakFairnessRunStep == []<>(~runStepReady) \/ []<><<RunStep>>_vars

SpecLive == Init /\ [][NextLive]_vars /\ WeakFairnessRunStep

\* the run has returned a complete report whose final analysis is stored
runComplete ==
    /\ pc = "idle"
    /\ result # Null
    /\ result.kind = "ok"
    /\ result.report.analysis_complete
    /\ loadWalletData(store, req.address) # Null
    /\ loadWalletData(store, req.address).final_analysis # Null

\* C27: every analyzeWallet run for a valid address in which every call
\* returns or fails and every store read and write succeeds eventually
\* finishes with a final analysis persisted and returns analysis_complete =
\* true, whatever provider and reasoning-service failures occur.
C27_RunCompletes ==
    (pc = "fetch" /\ runs.pipelines < MaxPipelines)
        ~> (runComplete \/ wfails.run)

\* a run has gone through the deterministic fallback of the final analysis
\* and returned a complete report
C27_Witness ==
    /\ runComplete
    /\ ~result.cached
    /\ ~wfails.run
    /\ final.analysis # Null
    /\ final.analysis.origin = "deterministic"

(***************************************************************************)
(* The orchestrator started on a store that holds the report of an         *)
(* earlier run (specification SpecCache).  Times count from the first      *)
(* call, so the earlier run's stamps are negative.                         *)
(***************************************************************************)

\* the report a complete run for AddrAMixed left at time t
completeReport(t) ==
    LET created == createNewWalletData(AddrAMixed, t)
        fetched == withRawData(created, "moralis", TokenWallet)
        assets == withAnalysis(fetched, "assets",
                      generateFallbackAssetAnalysis(TokenWallet.assetData), t)
        pools == withAnalysis(assets, "pools", noPoolsResult, t)
        protocols == withAnalysis(pools, "protocols",
                        generateFallbackProtocolAnalysis(TokenWallet.protocolData), t)
    IN  withFinalAnalysis(protocols, generateFallbackFinalAnalysis(protocols), t)

\* the earlier run ended two ticks of the clock before the first call
InitCache ==
    /\ store = saveWalletData([p \in Paths |-> Null],
                  completeReport(0 - 2 * TickMinutes * MsPerMinute),
                  0 - 2 * TickMinutes * MsPerMinute)
    /\ now = 0
    /\ pc = "idle"
    /\ req = Null
    /\ result = Null
    /\ walletData = Null
    /\ sub = [k \in Kinds |-> IdleSub]
    /\ final = [started |-> FALSE, analysis |-> Null]
    /\ did = {}
    /\ view = [existing |-> Null, t0 |-> 0, decided |-> FALSE, cached |-> FALSE]
    /\ log = [k \in Kinds |-> "none"]
    /\ wfails = [total |-> 0, run |-> FALSE, issues |-> 0]
    /\ runs = [calls |-> 0, pipelines |-> 0]
    /\ arg = Null
    /\ ret = Null
    /\ prev = Null
    /\ writer = Null
    /\ reader = Null
    /\ narr = Null
    /\ fetch = Null

SpecCache == InitCache /\ [][Next]_vars

\* C26: a report analyzeWallet returns without rerunning the pipeline has a
\* final analysis and three sub-analyses produced by one run that completed
\* no more than maxAgeMinutes earlier, also after an earlier rerun stopped
\* partway.
C26_CachedReportIsOneFreshRun ==
    view.cached =>
        LET report == view.existing
            maxAge == maxAgeOrDefault(req.maxAgeMinutes).val * MsPerMinute
            completed == report.final_analysis.processed_at
        IN  /\ view.t0 - completed <= maxAge
            /\ \A k \in Kinds :
                  /\ report.analysis[k] # Null
                  /\ report.analysis[k].processed_at <= completed
                  /\ view.t0 - report.analysis[k].processed_at <= maxAge

(***************************************************************************)
(* DataManager.shouldRefreshData called on its own (specification          *)
(* SpecStale): a report or none, a maximum age or none, a clock reading.   *)
(***************************************************************************)
StaleStamps == {0, 1000, MsPerMinute}
StaleOffsets ==
    {0, 1, 29 * MsPerMinute, 30 * MsPerMinute - 1, 30 * MsPerMinute,
     30 * MsPerMinute + 1, 31 * MsPerMinute, 45 * MsPerMinute, 45 * MsPerMinute + 1}
StaleMaxAges == {Undefined, Some(0), Some(30), Some(45)}
StaleReports == {Null} \cup {createNewWalletData(AddrA, t) : t \in StaleStamps}

ShouldRefreshDataCall(wd, maxAgeMinutes, t) ==
    /\ arg' = [walletData |-> wd, maxAgeMinutes |-> maxAgeMinutes, now |-> t]
    /\ ret' = Some(shouldRefreshData(wd, maxAgeMinutes, t))
    /\ UNCHANGED <<orchVars, prev, fileVars, narr, auxVars>>

NextStale ==
    \E wd \in StaleReports, maxAgeMinutes \in StaleMaxAges,
       base \in StaleStamps, offset \in StaleOffsets :
         ShouldRefreshDataCall(wd, maxAgeMinutes, base + offset)

SpecStale == Init /\ [][NextStale]_vars

\* C2: shouldRefreshData is true for an absent report; for a present one it
\* is true exactly when now minus last_updated is strictly greater than
\* maxAgeMinutes (30 when none is given): with 30 minutes it is false 29
\* minutes and exactly 30 minutes after last_updated, and true 31 minutes
\* after it.
C2_StaleStrictlyAfterMaxAge ==
    ret # Null =>
        LET wd == arg.walletData
            maxAge == IF arg.maxAgeMinutes = Undefined THEN 30 ELSE arg.maxAgeMinutes.val
        IN  IF wd = Null
            THEN ret.val = TRUE
            ELSE LET age == arg.now - wd.last_updated
                 IN  /\ ret.val <=> (age > maxAge * 60 * 1000)
                     /\ (maxAge = 30 /\ age = 29 * 60 * 1000) => ret.val = FALSE
                     /\ (maxAge = 30 /\ age = 30 * 60 * 1000) => ret.val = FALSE
                     /\ (maxAge = 30 /\ age = 31 * 60 * 1000) => ret.val = TRUE

\* the call without a maximum age on a report exactly 30 minutes old
\* answered false
C2_Witness ==
    /\ ret = Some(FALSE)
    /\ arg.walletData # Null
    /\ arg.maxAgeMinutes = Undefined
    /\ arg.now - arg.walletData.last_updated = 30 * MsPerMinute

(***************************************************************************)
(* The three update operations of the DataManager run one after another,   *)
(* each to its end (specification SpecStore).                              *)
(***************************************************************************)
MaxUpdates == 3
MaxStoreTicks == 2

RawSamples == {[tag |-> "r1"], [tag |-> "r2"]}
RawSources == {"moralis", "dune"}
AnalysisSamples == {noPoolsResult}
FinalSamples == {generateFallbackFinalAnalysis(createNewWalletData(AddrA, 0))}

updatesDone == IF arg = Null THEN 0 ELSE arg.seq

updateRawData(address, source, data) ==
    /\ updatesDone < MaxUpdates
    /\ prev' = store
    /\ arg' = [op |-> "updateRawData", address |-> address, key |-> source,
               value |-> data, t |-> now, seq |-> updatesDone + 1]
    /\ store' = saveWalletData(store,
                    withRawData(loadOrCreate(store, address, now), source, data), now)
    /\ UNCHANGED <<now, pc, req, result, walletData, sub, final, did, view, log, wfails, runs>>
    /\ UNCHANGED <<ret, fileVars, narr, auxVars>>

updateAnalysis(address, analysisType, analysis) ==
    /\ updatesDone < MaxUpdates
    /\ prev' = store
    /\ arg' = [op |-> "updateAnalysis", address |-> address, key |-> analysisType,
               value |-> analysis, t |-> now, seq |-> updatesDone + 1]
    /\ store' = saveWalletData(store,
                    withAnalysis(loadOrCreate(store, address, now), analysisType,
                                 analysis, now), now)
    /\ UNCHANGED <<now, pc, req, result, walletData, sub, final, did, view, log, wfails, runs>>
    /\ UNCHANGED <<ret, fileVars, narr, auxVars>>

updateFinalAnalysis(address, finalAnalysis) ==
    /\ updatesDone < MaxUpdates
    /\ prev' = store
    /\ arg' = [op |-> "updateFinalAnalysis", address |-> address, key |-> "final_analysis",
               value |-> finalAnalysis, t |-> now, seq |-> updatesDone + 1]
    /\ store' = saveWalletData(store,
                    withFinalAnalysis(loadOrCreate(store, address, now),
                                      finalAnalysis, now), now)
    /\ UNCHANGED <<now, pc, req, result, walletData, sub, final, did, view, log, wfails, runs>>
    /\ UNCHANGED <<ret, fileVars, narr, auxVars>>

StoreTick ==
    /\ now < MaxStoreTicks * MsPerMinute
    /\ now' = now + MsPerMinute
    /\ UNCHANGED <<store, pc, req, result, walletData, sub, final, did, view, log, wfails, runs>>
    /\ UNCHANGED nonOrchVars

NextStore ==
    \/ \E address \in WellFormed, source \in RawSources, data \in RawSamples :
         updateRawData(address, source, data)
    \/ \E address \in WellFormed, analysisType \in Kinds, analysis \in AnalysisSamples :
         updateAnalysis(address, analysisType, analysis)
    \/ \E address \in WellFormed, finalAnalysis \in FinalSamples :
         updateFinalAnalysis(address, finalAnalysis)
    \/ StoreTick

SpecStore == Init /\ [][NextStore]_vars

\* C5: updateRawData, updateAnalysis and updateFinalAnalysis, each run
\* without interleaving, create the report when none is stored and otherwise
\* change only the named field (that source's raw data, that kind's
\* analysis, or the final analysis) and last_updated, which becomes the
\* current time; every other field of the report and the report of every
\* other address stay as they were.
C5_UpdateChangesOnlyItsField ==
    arg # Null =>
        LET old == loadWalletData(prev, arg.address)
            new == loadWalletData(store, arg.address)
            base == IF old = Null
                    THEN [address |-> toLowerCase(arg.address), last_updated |-> arg.t,
                          analysis_version |-> "2.0",
                          raw_data |-> [s \in Sources |-> Null],
                          analysis |-> [k \in Kinds |-> Null],
                          final_analysis |-> Null]
                    ELSE old
            stamped == [f \in DOMAIN arg.value \cup {"processed_at"} |->
                          IF f = "processed_at" THEN arg.t ELSE arg.value[f]]
        IN  /\ \A a \in WellFormed :
                 toLowerCase(a) # toLowerCase(arg.address)
                    => loadWalletData(store, a) = loadWalletData(prev, a)
            /\ new # Null
            /\ new.address = base.address
            /\ new.analysis_version = base.analysis_version
            /\ new.last_updated = arg.t
            /\ \A s \in Sources :
                 new.raw_data[s] = IF arg.op = "updateRawData" /\ s = arg.key
                                   THEN arg.value ELSE base.raw_data[s]
            /\ \A k \in Kinds :
                 new.analysis[k] = IF arg.op = "updateAnalysis" /\ k = arg.key
                                   THEN stamped ELSE base.analysis[k]
            /\ new.final_analysis = IF arg.op = "updateFinalAnalysis"
                                    THEN [f \in DOMAIN stamped \ {"origin"} |-> stamped[f]]
                                    ELSE base.final_analysis

\* an analysis has been stored, at a later time, into a report that held raw
\* data of two sources, while another address has a report of its own
C5_Witness ==
    /\ arg # Null
    /\ arg.op = "updateAnalysis"
    /\ arg.t > 0
    /\ LET old == loadWalletData(prev, arg.address)
       IN  /\ old # Null
           /\ old.raw_data["moralis"] # Null
           /\ old.last_updated < arg.t
    /\ \E a \in WellFormed :
         toLowerCase(a) # toLowerCase(arg.address) /\ loadWalletData(store, a) # Null

(***************************************************************************)
(* One report file, saved by one process and loaded by another             *)
(* (specification SpecFile).  fs.writeFileSync opens the file truncating   *)
(* it and then writes the text: between the two the file holds a proper    *)
(* prefix of the new text, which is no JSON document.                      *)
(***************************************************************************)
MaxSaves == 3
MaxFileTicks == 2

FileReports ==
    {[createNewWalletData(AddrA, 0) EXCEPT !.raw_data["moralis"] = r, !.final_analysis = f] :
        r \in RawSamples, f \in {Null} \cup FinalSamples}

savesDone == IF writer = Null THEN 0 ELSE writer.saves
writing == IF writer = Null THEN FALSE ELSE writer.pc = "writing"

\* saveWalletData up to the moment the file is open and truncated
FileSaveBegin(data) ==
    /\ ~writing
    /\ savesDone < MaxSaves
    /\ LET p == getWalletFilePath(data.address)
           stamped == [data EXCEPT !.last_updated = now]
       IN  /\ writer' = [pc |-> "writing", saves |-> savesDone + 1,
                         old |-> store[p], new |-> FileOf(stamped)]
           /\ store' = [store EXCEPT ![p] = Truncated(stamped)]
    /\ UNCHANGED <<now, pc, req, result, walletData, sub, final, did, view, log, wfails, runs>>
    /\ UNCHANGED <<callVars, prev, reader, narr, auxVars>>

\* the text is written to its end
FileSaveEnd ==
    /\ writing
    /\ store' = [store EXCEPT ![getWalletFilePath(writer.new.json.address)] = writer.new]
    /\ writer' = [writer EXCEPT !.pc = "idle"]
    /\ UNCHANGED <<now, pc, req, result, walletData, sub, final, did, view, log, wfails, runs>>
    /\ UNCHANGED <<callVars, prev, reader, narr, auxVars>>

\* loadWalletData in the other process
FileLoad ==
    /\ LET p == getWalletFilePath(AddrA)
           during == writing
       IN  reader' = [value |-> loadWalletData(store, AddrA),
                      seen |-> store[p],
                      during |-> during,
                      old |-> IF during THEN writer.old ELSE store[p],
                      new |-> IF during THEN writer.new ELSE store[p]]
    /\ UNCHANGED orchVars
    /\ UNCHANGED <<callVars, prev, writer, narr, auxVars>>

FileTick ==
    /\ now < MaxFileTicks * MsPerMinute
    /\ now' = now + MsPerMinute
    /\ UNCHANGED <<store, pc, req, result, walletData, sub, final, did, view, log, wfails, runs>>
    /\ UNCHANGED nonOrchVars

NextFile ==
    \/ \E data \in FileReports : FileSaveBegin(data)
    \/ FileSaveEnd
    \/ FileLoad
    \/ FileTick

SpecFile == Init /\ [][NextFile]_vars

\* C4: a load of an address that runs while a save of the same address is
\* under way returns the complete report stored before or the complete new
\* report, never a partially written one.
C4_LoadSeesOldOrNew ==
    (reader # Null /\ reader.during) =>
        \/ reader.value = (IF reader.old = Null THEN Null ELSE reader.old.json)
        \/ reader.value = reader.new.json

\* C12: load returns absent, without error, when no report is stored for the
\* address, and fails with an error, not returning absent, when a stored
\* report exists that cannot be read or parsed.
C12_AbsentOnlyWhenNothingStored ==
    reader # Null => (reader.value = Null <=> reader.seen = Null)

(***************************************************************************)
(* One analyzer and the reasoning service (specification SpecNarr): the    *)
(* analyzer has its combined data, the service answers call after call.    *)
(***************************************************************************)
MaxResponses == 6

EstablishedToken ==
    [type |-> "token", isEstablished |-> TRUE, verified |-> TRUE,
     possibleSpam |-> FALSE, isLikelyAirdrop |-> FALSE, hasLowBalance |-> FALSE,
     scamPattern |-> FALSE]

ScamToken ==
    [type |-> "token", isEstablished |-> FALSE, verified |-> FALSE,
     possibleSpam |-> TRUE, isLikelyAirdrop |-> FALSE, hasLowBalance |-> FALSE,
     scamPattern |-> TRUE]

NarrAssetData ==
    {[assets |-> <<[a |-> EstablishedToken, n |-> e], [a |-> ScamToken, n |-> sc],
                   [a |-> DustAirdrop, n |-> d]>>,
      assetCount |-> e + sc + d,
      multiChain |-> [totalChains |-> TotalChains]] :
        e \in {0, 2, 30}, sc \in {0, 3, 40}, d \in {0, 4, 120}}

NarrPoolData ==
    {[protocols |-> ps, positionCount |-> Cardinality(ps)] :
        ps \in {{}, {"aave"}, {"shadyfarm"}, {"aave", "curve", "sushiswap", "quickswap"},
                {"shadyfarm", "rugpool", "moonvault", "apeyield", "pumpfi"}}}

NarrProtocolData ==
    {EmptyProtocolData}
        \cup {[interactions |-> n, riskTransactions |-> r, uniqueProtocols |-> n,
               unknownProtocols |-> u, protocolCounts |-> n, totalVolume |-> v] :
                n \in {1, 6}, u \in {0, 1}, r \in {0, 1, 5}, v \in {0, 500, 12000}}

NarrContents ==
    {Null, [parse |-> "error"], [parse |-> "null"]}
        \cup {[parse |-> "object", gpt_analysis |-> g, risk_score |-> sc] :
                g \in {JSUndef, JSStr(""), JSStr("narrative"), JSNum(42), JSObj},
                sc \in {JSUndef, JSStr("72"), JSNum(-20), JSNum(0), JSNum(72),
                        JSNum(100), JSNum(140)}}

NarrResponses(kind) ==
    {[kind |-> "error"], [kind |-> "nomessage"]}
        \cup {[kind |-> "final", content |-> c] : c \in NarrContents}
        \cup (IF kind = "assets"
              THEN {[kind |-> "tool", argsOk |-> b] : b \in BOOLEAN}
              ELSE {})

\* what updateAnalysis puts into the report for a returned result
storedAnalysis(kind, analysis) ==
    withAnalysis(createNewWalletData(AddrA, 0), kind, analysis, 0).analysis[kind]

mkNarr(kind, data, responses) ==
    LET out == analyze(kind, data, responses)
    IN  [kind |-> kind, data |-> data, responses |-> responses, out |-> out,
         stored |-> IF out.state = "returned"
                    THEN storedAnalysis(kind, out.result) ELSE Null]

InitNarr ==
    /\ OrchInit
    /\ arg = Null
    /\ ret = Null
    /\ prev = Null
    /\ writer = Null
    /\ reader = Null
    /\ fetch = Null
    /\ narr \in {mkNarr(kind, data, <<>>) : kind \in {"assets"}, data \in NarrAssetData}
                \cup {mkNarr(kind, data, <<>>) : kind \in {"pools"}, data \in NarrPoolData}
                \cup {mkNarr(kind, data, <<>>) : kind \in {"protocols"},
                                                 data \in NarrProtocolData}

\* the service answers the call the analyzer is waiting on
NarrRespond(r) ==
    /\ narr.out.state = "awaiting"
    /\ Len(narr.responses) < MaxResponses
    /\ narr' = mkNarr(narr.kind, narr.data, Append(narr.responses, r))
    /\ UNCHANGED <<orchVars, callVars, prev, fileVars, auxVars>>

\* the analyzer throws before any call; run*Analysis stores the placeholder
NarrDataIssue ==
    /\ narr.out.state = "awaiting"
    /\ narr.responses = <<>>
    /\ narr' = [narr EXCEPT !.out = Returned(placeholder, 0, 0, "placeholder"),
                            !.stored = storedAnalysis(narr.kind, placeholder)]
    /\ UNCHANGED <<orchVars, callVars, prev, fileVars, auxVars>>

NextNarr ==
    \/ \E r \in NarrResponses(narr.kind) : NarrRespond(r)
    \/ NarrDataIssue

SpecNarr == InitNarr /\ [][NextNarr]_vars

\* C7: for each of the three analyzers, when the reasoning-service call
\* fails in any way (transport error, empty reply, reply that is no valid
\* JSON, parsed object without a narrative string or without a numeric
\* score, iteration cap exceeded) the analyzer returns the result of its
\* deterministic scorer and raises no error.
C7_FallbackOnAnyServiceFailure ==
    (narr.out.state = "returned" /\ narr.responses # <<>>) =>
        LET r == narr.responses[Len(narr.responses)]
            c == r.content
            failed ==
                IF r.kind = "error" \/ r.kind = "nomessage" THEN TRUE
                ELSE IF r.kind = "tool" THEN narr.out.rounds = 5
                ELSE IF c = Null THEN TRUE
                ELSE IF c.parse # "object" THEN TRUE
                ELSE c.gpt_analysis.t # "string" \/ c.risk_score.t # "number"
        IN  failed => narr.out.result = fallbackOf(narr.kind, narr.data)

\* C8: the asset analyzer's tool loop terminates: it makes at most 5
\* reasoning-service calls, and when the service asks for tool calls in 5
\* consecutive rounds the attempt counts as failed and the deterministic
\* fallback result is returned.
C8_AtMostFiveCalls ==
    narr.kind = "assets" =>
        /\ narr.out.calls <= 5
        /\ Len(narr.responses) <= 5
        /\ Len(narr.responses) = 5 => narr.out.state = "returned"
        /\ narr.out.rounds = 5 =>
             /\ narr.out.state = "returned"
             /\ narr.out.result = generateFallbackAssetAnalysis(narr.data)

\* the service has asked for tool calls five times in a row and the asset
\* analyzer has returned its fallback
C8_Witness ==
    /\ narr.kind = "assets"
    /\ Len(narr.responses) = 5
    /\ \A i \in 1..5 : narr.responses[i].kind = "tool"
    /\ narr.out.state = "returned"
    /\ narr.out.origin = "deterministic"

\* C9: every risk_score the asset, pool and protocol analyzers return, and
\* every one stored in a report, lies in [0,100], on the service path
\* whatever number the service gave and on the deterministic path whatever
\* the adjustments sum to.
C9_ScoreWithinRange ==
    narr.out.state = "returned" =>
        /\ narr.out.result.risk_score \in 0..100
        /\ narr.stored.risk_score \in 0..100

\* the service gave a score of 140 and the analyzer returned 100
C9_Witness ==
    /\ narr.out.state = "returned"
    /\ narr.out.origin = "service"
    /\ narr.responses[Len(narr.responses)].content.risk_score = JSNum(140)
    /\ narr.out.result.risk_score = 100
    /\ narr.stored.risk_score = 100

\* C18: with zero holdings the asset analysis takes a dedicated no-data
\* branch: it returns a fixed low-risk score with an explicit 'no exposure'
\* finding, and raises no error.
C18_NoHoldingsDedicatedBranch ==
    (narr.kind = "assets" /\ narr.data.assetCount = 0
        /\ narr.out.state = "returned" /\ narr.out.origin # "placeholder") =>
        /\ narr.out.origin = "shortcut"
        /\ narr.out.calls = 0
        /\ narr.out.result.risk_score <= 40

\* C19: with zero protocol interactions the protocol analyzer stores and
\* returns risk_score 5 with the 'no significant protocol interactions'
\* narrative, without a call of the reasoning service or of the lookup
\* service and without running the scoring logic.
C19_NoInteractionsShortcut ==
    (narr.kind = "protocols" /\ narr.data.interactions = 0
        /\ narr.out.state = "returned" /\ narr.out.origin # "placeholder") =>
        /\ narr.out.result = noProtocolsResult
        /\ narr.out.result.risk_score = 5
        /\ narr.out.origin = "shortcut"
        /\ narr.out.calls = 0
        /\ narr.out.lookups = 0
        /\ narr.stored = [gpt_analysis |-> noProtocolsResult.gpt_analysis,
                          risk_score |-> 5,
                          key_findings |-> noProtocolsResult.key_findings,
                          processed_at |-> 0]

\* the analyzer has returned the shortcut result for data without
\* interactions, where the scoring logic would have given another score
C19_Witness ==
    /\ narr.kind = "protocols"
    /\ narr.data.interactions = 0
    /\ narr.out.state = "returned"
    /\ narr.out.origin = "shortcut"
    /\ narr.stored.risk_score = 5
    /\ generateFallbackProtocolAnalysis(narr.data).risk_score # 5

(***************************************************************************)
(* The provider client (MoralisAPI) and fetchAllRawData (specification     *)
(* SpecFetch).  A provider request is one makeRequest; it returns the      *)
(* provider's data or throws.  A list the provider returns is represented  *)
(* by its shape (a bare array, or an object with a result array) and its   *)
(* length.  A balance is counted in units of 10^12 wei, the resolution of  *)
(* toFixed(6) on ether; a formatted balance is the number of millionths    *)
(* and the number of decimals written.                                     *)
(***************************************************************************)

MaxFailedCalls == 2

Chains == {"eth", "base", "polygon"}

\* the requests of one fetchAllRawData: those inside getWalletPortfolio
\* (chain eth), the other five for eth, three for base, three for polygon
PortfolioRequests ==
    {<<"portfolio", k>> : k \in {"native", "tokens", "nfts", "defi", "networth", "pnl"}}
Requests ==
    PortfolioRequests
    \cup {<<"eth", k>> : k \in {"transactions", "tokens", "native", "defi", "pnl"}}
    \cup {<<c, k>> : c \in {"base", "polygon"}, k \in {"tokens", "native", "defi"}}

chainOf(r) == IF r[1] = "portfolio" THEN "eth" ELSE r[1]

ArrayOf(n) == [shape |-> "array", n |-> n]
PagedOf(n) == [shape |-> "paged", n |-> n]

\* what the provider holds for a chain
ChainEmpty == [native |-> 0, tokens |-> ArrayOf(0)]
ChainNativeOnly == [native |-> 2500000, tokens |-> ArrayOf(0)]
ChainTokensOnly == [native |-> 0, tokens |-> ArrayOf(2)]
ChainPagedTokens == [native |-> 0, tokens |-> PagedOf(2)]

ProviderWorlds ==
    [Chains -> {ChainEmpty, ChainNativeOnly, ChainTokensOnly}]
    \cup {[c \in Chains |-> IF c = "eth" THEN ChainPagedTokens ELSE x] :
             x \in {ChainEmpty, ChainNativeOnly}}

\* response.data of a request that succeeds
responseData(world, r) ==
    LET c == chainOf(r)
    IN  CASE r[2] = "native" -> [balance |-> world[c].native]
          [] r[2] = "tokens" -> world[c].tokens
          [] r[2] = "transactions" -> PagedOf(3)
          [] r[2] = "defi" -> ArrayOf(IF c = "eth" THEN 1 ELSE 0)
          [] r[2] = "nfts" -> PagedOf(1)
          [] r[2] = "networth" ->
                [total_networth_usd |-> 1200,
                 chains |-> {ch \in Chains : world[ch].native > 0}]
          [] r[2] = "pnl" ->
                [total_usd_value |-> 300, total_usd_value_change |-> 20,
                 total_percentage_change |-> 7]

\* (parseFloat(balance) / 1e18).toFixed(6)
toFixed6(balance) == [micro |-> balance, decimals |-> 6]

\* the try branch of each client method
methodResult(world, r) ==
    LET data == responseData(world, r)
    IN  CASE r[2] = "native" ->
                [balance |-> data.balance, balance_formatted |-> toFixed6(data.balance)]
          [] r[2] = "nfts" -> ArrayOf(data.n)
          [] OTHER -> data

\* the catch branch of each client method
methodDefault(r) ==
    CASE r[2] = "native" ->
            [balance |-> 0, balance_formatted |-> [micro |-> 0, decimals |-> 0]]
      [] r[2] \in {"tokens", "transactions", "defi", "nfts"} -> ArrayOf(0)
      [] r[2] = "networth" -> [total_networth_usd |-> 0, chains |-> {}]
      [] r[2] = "pnl" ->
            [total_usd_value |-> 0, total_usd_value_change |-> 0,
             total_percentage_change |-> 0]

\* a failed request left without a value
methodNoDefault(world, failed, r) ==
    IF r \in failed THEN Null ELSE methodResult(world, r)

\* getNativeBalance, getTokenBalances, getTransactions, getDefiPositions,
\* getNFTBalances, getNetWorth, getProfitAndLoss
clientMethod(world, failed, r) ==
    IF r \in failed THEN methodDefault(r) ELSE methodResult(world, r)

\* the array a token list is read as: (x as any)?.result || x || []
listLength(x) == IF x = Null THEN 0 ELSE x.n

\* getWalletPortfolio: six client calls, the computed total value; its catch
\* returns the all-default portfolio when a property of a missing value is read
portfolioDefault ==
    [totalValue |-> 0,
     nativeBalance |-> methodDefault(<<"portfolio", "native">>),
     tokenBalances |-> ArrayOf(0),
     nftBalances |-> ArrayOf(0),
     defiPositions |-> ArrayOf(0),
     netWorth |-> methodDefault(<<"portfolio", "networth">>),
     profitLoss |-> methodDefault(<<"portfolio", "pnl">>)]

getWalletPortfolio(world, failed) ==
    LET part(k) == clientMethod(world, failed, <<"portfolio", k>>)
        nativeBalance == part("native")
        netWorth == part("networth")
    IN  IF nativeBalance = Null \/ netWorth = Null THEN portfolioDefault
        ELSE
          LET nativeValue == ((nativeBalance.balance_formatted.micro \div 1000) * 18) \div 10
              tokenValues == listLength(part("tokens"))
          IN  [totalValue |-> IF netWorth.total_networth_usd # 0
                              THEN netWorth.total_networth_usd
                              ELSE nativeValue + tokenValues,
               nativeBalance |-> nativeBalance,
               tokenBalances |-> part("tokens"),
               nftBalances |-> part("nfts"),
               defiPositions |-> part("defi"),
               netWorth |-> netWorth,
               profitLoss |-> part("pnl")]

\* the twelve calls of fetchAllRawData's Promise.all
OuterCalls == {<<"eth", "portfolio">>} \cup (Requests \ PortfolioRequests)

outerResult(world, failed, c) ==
    IF c = <<"eth", "portfolio">> THEN getWalletPortfolio(world, failed)
    ELSE clientMethod(world, failed, c)

ChainLabel(ch) == IF ch = "eth" THEN "ethereum" ELSE ch

\* x?.result?.length > 0 || parseFloat(native?.balance_formatted || '0') > 0
chainHasActivity(tokens, native) ==
    \/ (tokens # Null /\ tokens.shape = "paged" /\ tokens.n > 0)
    \/ (native # Null /\ native.balance_formatted.micro > 0)

\* the object fetchAllRawData hands to updateRawData (lines 228-279); the
\* per-chain structure kept for compatibility repeats the values of raw
moralisBlob(world, failed) ==
    LET raw == [c \in OuterCalls |-> outerResult(world, failed, c)]
        multiChainNetWorth == raw[<<"eth", "portfolio">>].netWorth
        active == {ch \in Chains :
                      chainHasActivity(raw[<<ch, "tokens">>], raw[<<ch, "native">>])}
    IN  [raw |-> raw,
         raw_multi_chain_net_worth |-> multiChainNetWorth,
         net_worth |->
             [ch \in Chains |->
                 [total_networth_usd |-> multiChainNetWorth.total_networth_usd,
                  chains |-> multiChainNetWorth.chains \cap {ch}]],
         combined_metrics |->
             [total_net_worth_usd |-> multiChainNetWorth.total_networth_usd,
              total_chains_active |-> Cardinality(active),
              chains_with_activity |-> {ChainLabel(ch) : ch \in active}]]

\* formatResult (lines 352-400): the chains of the per-chain breakdown, a
\* token list read as token_balances?.result || token_balances || []
chainBreakdown(blob) ==
    {ChainLabel(ch) : ch \in
        {c \in Chains :
            \/ listLength(blob.raw[<<c, "tokens">>]) > 0
            \/ blob.raw[<<c, "native">>].balance_formatted.micro > 0}}

\* the multiChainInfo of the final report (lines 364-374): the list of the
\* service's reply as it is, nothing when the reply has none
normalizeMultiChainInfo(info) ==
    IF info = Null THEN Null
    ELSE [totalChainsActive |-> Max(0, info.totalChainsActive),
          chainsWithActivity |-> info.chainsWithActivity]

\* the multiChainInfo of a reply of the reasoning service
MultiChainReplies ==
    {Null} \cup {[totalChainsActive |-> Cardinality(l), chainsWithActivity |-> l] :
                    l \in {{}, {"ethereum"}, {"ethereum", "base", "polygon"}}}

\* the sets of requests that fail in one fetch: up to MaxFailedCalls of
\* them, or all of them
FailedSets ==
    {f \in SUBSET Requests : Cardinality(f) <= MaxFailedCalls} \cup {Requests}

FetchAddress == AddrAMixed

\* fetchAllRawData (lines 175-287) as analyzeWallet calls it at line 145:
\* the requests succeed or fail, the blob is built and handed to
\* updateRawData, and the catch swallows a failed write
FetchAllRawDataCall ==
    /\ fetch = Null
    /\ \E world \in ProviderWorlds, failed \in FailedSets, w \in WriteOutcomes :
         LET wd == loadOrCreate(store, FetchAddress, now)
             blob == moralisBlob(world, failed)
         IN  /\ store' = writeWalletData(store, withRawData(wd, "moralis", blob), now, w)
             /\ wfails' = noteFailure(w)
             /\ fetch' = [pc |-> "fetched", world |-> world, failed |-> failed,
                          written |-> (w = "ok"), prefetched |-> FALSE,
                          multiChainInfo |-> Null]
    /\ UNCHANGED <<now, pc, req, result, walletData, sub, final, did, view, log, runs>>
    /\ UNCHANGED <<callVars, prev, fileVars, narr>>

\* lines 148-153: the report is loaded and handed to the three run*Analysis
\* tasks, each of which returns its analyzer's result or stores the
\* placeholder (what they store is specified in Spec)
FetchThenAnalyses ==
    /\ fetch # Null
    /\ fetch.pc = "fetched"
    /\ fetch' = [fetch EXCEPT !.pc = "analyzed",
                              !.prefetched = HasMoralis(loadWalletData(store, FetchAddress))]
    /\ UNCHANGED <<orchVars, callVars, prev, fileVars, narr>>

\* line 156: generateFinalAnalysis, with the multiChainInfo of the reply
FetchThenFinal ==
    /\ fetch # Null
    /\ fetch.pc = "analyzed"
    /\ \E info \in MultiChainReplies :
         fetch' = [fetch EXCEPT !.pc = "finalized",
                                !.multiChainInfo = normalizeMultiChainInfo(info)]
    /\ UNCHANGED <<orchVars, callVars, prev, fileVars, narr>>

NextFetch ==
    \/ FetchAllRawDataCall
    \/ FetchThenAnalyses
    \/ FetchThenFinal

SpecFetch == Init /\ [][NextFetch]_vars

\* C11: when any subset of the provider calls of a fetch fails, each failed
\* call is replaced by its empty/zero default, the results of the calls that
\* succeeded are stored unchanged, and the run goes on to the three
\* sub-analyses and the final aggregation.
C11_FailedCallsDefaulted ==
    (fetch # Null /\ fetch.written) =>
        LET stored == loadWalletData(store, FetchAddress)
            expected(r) == IF r \in fetch.failed THEN methodDefault(r)
                           ELSE methodResult(fetch.world, r)
        IN  /\ stored # Null
            /\ HasMoralis(stored)
            /\ \A c \in OuterCalls \ {<<"eth", "portfolio">>} :
                  stored.raw_data["moralis"].raw[c] = expected(c)
            /\ LET portfolio == stored.raw_data["moralis"].raw[<<"eth", "portfolio">>]
               IN  /\ portfolio.nativeBalance = expected(<<"portfolio", "native">>)
                   /\ portfolio.tokenBalances = expected(<<"portfolio", "tokens">>)
                   /\ portfolio.nftBalances = expected(<<"portfolio", "nfts">>)
                   /\ portfolio.defiPositions = expected(<<"portfolio", "defi">>)
                   /\ portfolio.netWorth = expected(<<"portfolio", "networth">>)
                   /\ portfolio.profitLoss = expected(<<"portfolio", "pnl">>)
            /\ fetch.pc \in {"analyzed", "finalized"} => fetch.prefetched

\* a run with one request of base failed and one of eth's portfolio failed,
\* the others stored, has reached the final aggregation
C11_Witness ==
    /\ fetch # Null
    /\ fetch.written
    /\ fetch.pc = "finalized"
    /\ fetch.failed = {<<"base", "tokens">>, <<"portfolio", "networth">>}
    /\ fetch.world["base"] = ChainTokensOnly
    /\ loadWalletData(store, FetchAddress).raw_data["moralis"].raw[<<"eth", "native">>]
          = methodResult(fetch.world, <<"eth", "native">>)

\* the chains whose fetched native balance is nonzero or whose fetched
\* token list is not empty
chainsHeld(blob) ==
    {ChainLabel(ch) : ch \in
        {c \in Chains :
            \/ blob.raw[<<c, "native">>].balance # 0
            \/ blob.raw[<<c, "tokens">>].n > 0}}

\* C24: the multi-chain information of a report (the stored active-chain
\* list and count, the per-chain breakdown of the result, the final
\* report's chainsWithActivity) lists exactly the chains whose fetched
\* native balance is nonzero or whose fetched token list is non-empty.
C24_ActiveChainsExact ==
    (fetch # Null /\ fetch.written) =>
        LET blob == loadWalletData(store, FetchAddress).raw_data["moralis"]
        IN  /\ blob.combined_metrics.chains_with_activity = chainsHeld(blob)
            /\ blob.combined_metrics.total_chains_active = Cardinality(chainsHeld(blob))
            /\ chainBreakdown(blob) = chainsHeld(blob)
            /\ fetch.multiChainInfo # Null =>
                  fetch.multiChainInfo.chainsWithActivity = chainsHeld(blob)

(***************************************************************************)
(* The final aggregator called on its own (specification SpecFinal): a     *)
(* report with some of the three analyses, and the reasoning service       *)
(* failing or replying.                                                    *)
(***************************************************************************)

\* the sub-analysis scores of the reports
FinalSubScores == {0, 5, 20, 21, 50, 100}

\* reports with any of the three analyses present
FinalReports ==
    {[createNewWalletData(AddrA, 0) EXCEPT !.analysis =
        [k \in Kinds |-> IF k \notin present THEN Null
                         ELSE [gpt_analysis |-> JSStr("stored"), risk_score |-> sc[k],
                               key_findings |-> "stored", processed_at |-> 0]]] :
        present \in SUBSET Kinds, sc \in [Kinds -> FinalSubScores]}

\* the parsed replies of the service
FinalServiceReplies ==
    [overall_risk_score :
        {JSUndef} \cup {JSNum(n) : n \in {-5, 0, 20, 21, 40, 41, 60, 61, 80, 81, 100, 150}},
     risk_level : {JSUndef, JSStr("low"), JSStr("very-high"), JSStr("critical")},
     confidence_score : {JSUndef} \cup {JSNum(n) : n \in {-5, 0, 80, 120}}]

FullReport ==
    CHOOSE wd \in FinalReports :
        \A k \in Kinds : IF wd.analysis[k] = Null THEN FALSE
                         ELSE wd.analysis[k].risk_score = 50

\* generateGPTFinalAnalysis(walletData) with the service failing (reply Null)
\* or replying
GenerateGPTFinalAnalysisCall ==
    /\ arg = Null
    /\ \E call \in (FinalReports \X {Null}) \cup ({FullReport} \X FinalServiceReplies) :
         /\ arg' = [fn |-> "generateGPTFinalAnalysis", walletData |-> call[1], reply |-> call[2]]
         /\ ret' = generateGPTFinalAnalysis(call[1], call[2])
    /\ UNCHANGED <<orchVars, prev, fileVars, narr, auxVars>>

\* updateFinalAnalysis of generateFinalAnalysis (line 66): the final report
\* is stored under the report's address
FinalAnalysisStored ==
    /\ arg # Null
    /\ arg.fn = "generateGPTFinalAnalysis"
    /\ loadWalletData(store, arg.walletData.address) = Null
    /\ store' = saveWalletData(store, withFinalAnalysis(arg.walletData, ret, now), now)
    /\ UNCHANGED <<now, pc, req, result, walletData, sub, final, did, view, log, wfails, runs>>
    /\ UNCHANGED nonOrchVars

NextFinal ==
    \/ GenerateGPTFinalAnalysisCall
    \/ FinalAnalysisStored

SpecFinal == Init /\ [][NextFinal]_vars

\* the bucket of a score: 0-20 very-low, 21-40 low, 41-60 medium, 61-80 high,
\* 81-100 very-high
BucketOf(score) ==
    CASE score <= 20 -> "very-low"
      [] score >= 21 /\ score <= 40 -> "low"
      [] score >= 41 /\ score <= 60 -> "medium"
      [] score >= 61 /\ score <= 80 -> "high"
      [] score >= 81 -> "very-high"

\* C13: in every final report, on the reasoning-service path and on the
\* fallback path, risk_level is the bucket of the report's overall_risk_score
\* (0-20 very-low, 21-40 low, 41-60 medium, 61-80 high, 81-100 very-high).
C13_LevelIsBucketOfScore ==
    (arg # Null /\ arg.fn = "generateGPTFinalAnalysis") =>
        ret.risk_level = BucketOf(ret.overall_risk_score)

\* the analyses present in the report of the call, and their scores
presentKinds == {k \in Kinds : arg.walletData.analysis[k] # Null}
presentScore(k) == IF k \in presentKinds THEN arg.walletData.analysis[k].risk_score ELSE 0

\* C14: when the reasoning service fails during the final aggregation,
\* overall_risk_score is the arithmetic mean, rounded to the nearest integer,
\* of the risk scores of exactly the sub-analyses present in the report; an
\* absent sub-analysis is left out of the mean, never counted as zero.
C14_FallbackScoreIsMeanOfPresent ==
    (arg # Null /\ arg.fn = "generateGPTFinalAnalysis" /\ arg.reply = Null
        /\ presentKinds # {}) =>
        LET n == Cardinality(presentKinds)
            total == presentScore("assets") + presentScore("pools") + presentScore("protocols")
            m == ret.overall_risk_score
        IN  /\ 2 * n * m <= 2 * total + n
            /\ 2 * total + n < 2 * n * (m + 1)

\* the service failed on a report with assets at 5 and protocols at 100 and
\* no pool analysis: the mean 52.5 is reported as 53
C14_Witness ==
    /\ arg # Null
    /\ arg.fn = "generateGPTFinalAnalysis"
    /\ arg.reply = Null
    /\ presentKinds = {"assets", "protocols"}
    /\ presentScore("assets") = 5
    /\ presentScore("protocols") = 100
    /\ ret.overall_risk_score = 53

\* C15: on the fallback path of the final aggregator confidence_score is
\* clamp(25 * n, 30, 70) for n the number of sub-analyses present: 30 for
\* none or one, 50 for two, 70 for three.
C15_FallbackConfidenceClamped ==
    (arg # Null /\ arg.fn = "generateGPTFinalAnalysis" /\ arg.reply = Null) =>
        LET n == Cardinality(presentKinds)
        IN  ret.confidence_score =
                CASE n = 0 -> 30
                  [] n = 1 -> 30
                  [] n = 2 -> 50
                  [] n = 3 -> 70

\* the service failed on a report with exactly two analyses, and the
\* confidence is 50
C15_Witness ==
    /\ arg # Null
    /\ arg.fn = "generateGPTFinalAnalysis"
    /\ arg.reply = Null
    /\ Cardinality(presentKinds) = 2
    /\ ret.confidence_score = 50
    /\ ret.origin = "deterministic"

\* C29: on the reasoning-service path, for every numeric overall_risk_score
\* s and confidence_score c of the reply, the final report has
\* overall_risk_score = clamp(s, 0, 100) and confidence_score =
\* clamp(c, 0, 100); a returned 0 is reported as 0.
C29_ServiceScoresClamped ==
    (arg # Null /\ arg.fn = "generateGPTFinalAnalysis" /\ arg.reply # Null) =>
        /\ arg.reply.overall_risk_score.t = "number" =>
              ret.overall_risk_score = clampScore(arg.reply.overall_risk_score.num)
        /\ arg.reply.confidence_score.t = "number" =>
              ret.confidence_score = clampScore(arg.reply.confidence_score.num)

(***************************************************************************)
(* The deterministic asset scorer called on its own (specification         *)
(* SpecScore).                                                             *)
(***************************************************************************)

\* combined asset data: e established tokens, s flagged tokens with a
\* balance above dust, d flagged tokens with a dust balance, on c chains
scoreInput(e, s, d, c) ==
    [assets |-> <<[a |-> EstablishedToken, n |-> e], [a |-> ScamToken, n |-> s],
                  [a |-> DustAirdrop, n |-> d]>>,
     assetCount |-> e + s + d,
     multiChain |-> [totalChains |-> c]]

ScoreInputs ==
    {scoreInput(e, s, d, c) :
        e \in {0, 2, 10, 11}, s \in {0, 1, 2, 30, 31}, d \in {0, 3, 4, 8, 120}, c \in {1, 3}}

\* calculateWeightedRiskScore(data): the score, and the adjustment of each
\* category
CalculateWeightedRiskScoreCall ==
    /\ arg = Null
    /\ \E data \in ScoreInputs :
         /\ arg' = [fn |-> "calculateWeightedRiskScore", data |-> data]
         /\ ret' = [score |-> calculateWeightedRiskScore(data),
                    adjustments |-> assetAdjustments(data)]
    /\ UNCHANGED <<orchVars, prev, fileVars, narr, auxVars>>

\* generateFallbackAssetAnalysis(data) built on the score
GenerateFallbackAssetAnalysisCall ==
    /\ arg # Null
    /\ arg.fn = "calculateWeightedRiskScore"
    /\ arg' = [fn |-> "generateFallbackAssetAnalysis", data |-> arg.data]
    /\ ret' = [score |-> generateFallbackAssetAnalysis(arg.data).risk_score,
               adjustments |-> ret.adjustments]
    /\ UNCHANGED <<orchVars, prev, fileVars, narr, auxVars>>

NextScore ==
    \/ CalculateWeightedRiskScoreCall
    \/ GenerateFallbackAssetAnalysisCall

SpecScore == Init /\ [][NextScore]_vars

\* the numbers of flagged tokens of the call's data, all and dust
flaggedCount == arg.data.assets[2].n + arg.data.assets[3].n
flaggedDustCount == arg.data.assets[3].n

\* C16: each category's contribution is capped, for any number of tokens:
\* the established-token bonus lowers the score by at most 20, the
\* scam-token penalty raises it by at most 60, the over-diversification
\* penalty raises it by at most 15.
C16_ContributionsCapped ==
    (arg # Null /\ arg.fn = "calculateWeightedRiskScore") =>
        /\ ret.adjustments.established >= -20
        /\ ret.adjustments.scam <= 60
        /\ ret.adjustments.overDiversification <= 15

\* C17: the aggregate scam penalty is halved exactly when at least 80% of
\* the flagged tokens have a dust balance; so, for a fixed number of flagged
\* tokens, a dust token in place of a non-dust one never raises the penalty.
C17_ScamPenaltyHalvedForDust ==
    (arg # Null /\ arg.fn = "calculateWeightedRiskScore") =>
        LET n == flaggedCount
            d == flaggedDustCount
            mostlyDust == n > 0 /\ 100 * d >= 80 * n
        IN  /\ ret.adjustments.scam = IF mostlyDust THEN n ELSE 2 * n
            /\ d < n => scamPenalty(n, d + 1) <= ret.adjustments.scam
            /\ d > 0 => ret.adjustments.scam <= scamPenalty(n, d - 1)

\* five flagged tokens of which exactly four are dust: the penalty is 5, and
\* with one dust token fewer it would be 10
C17_Witness ==
    /\ arg # Null
    /\ arg.fn = "calculateWeightedRiskScore"
    /\ flaggedCount = 5
    /\ flaggedDustCount = 4
    /\ ret.adjustments.scam = 5
    /\ scamPenalty(5, 3) = 10

(***************************************************************************)
(* The high-risk list of the protocol extraction (specification SpecRisk). *)
(* Amounts in dollars are counted in cents, transaction values in          *)
(* thousandths of an ether.                                                *)
(***************************************************************************)

MaxTransactions == 2
AnalyzedTransactions == 50
ethPriceUsd == 2500
HIGH_VALUE_THRESHOLD == 10000
MEDIUM_VALUE_THRESHOLD == 1000

\* isHighRiskTransaction with the thresholds themselves on the list
isHighRiskTransactionInclusive(interaction, valueUsd) ==
    IF valueUsd >= HIGH_VALUE_THRESHOLD * 100 /\ interaction.riskLevel = "high"
    THEN TRUE
    ELSE IF valueUsd >= MEDIUM_VALUE_THRESHOLD * 100 /\ interaction.riskLevel = "high"
                /\ interaction.is_failed
         THEN TRUE
         ELSE IF valueUsd >= MEDIUM_VALUE_THRESHOLD * 100 /\ interaction.is_failed
              THEN TRUE
              ELSE FALSE

isHighRiskTransaction(interaction, valueUsd) ==
    IF valueUsd > HIGH_VALUE_THRESHOLD * 100 /\ interaction.riskLevel = "high"
    THEN TRUE
    ELSE IF valueUsd > MEDIUM_VALUE_THRESHOLD * 100 /\ interaction.riskLevel = "high"
                /\ interaction.is_failed
         THEN TRUE
         ELSE IF valueUsd > MEDIUM_VALUE_THRESHOLD * 100 /\ interaction.is_failed
              THEN TRUE
              ELSE FALSE

\* str.includes(part)
includes(str, part) ==
    \E i \in 0..(Len(str) - Len(part)) : SubSeq(str, i + 1, i + Len(part)) = part

\* Entries of knowledgeBase.contractToProtocol, each address shortened to
\* a few of its characters in the letter case of the table: weth (tier 1,
\* line 22), 1inch_v4 (tier 2, line 30), curve_voting_escrow (tier 1,
\* line 48) and metamask_swap_router (tier 3, line 89).
WethKey == <<"c", "0", "2", "a">>
OneInchKey == <<"1", "1", "1", "2">>
CurveKey == <<"5", "f", "3", "D">>
MetamaskKey == <<"8", "8", "1", "D">>

WethName == <<"w", "e", "t", "h">>
OneInchName == <<"1", "i", "n", "c", "h">>
CurveName == <<"c", "u", "r", "v", "e">>
MetamaskName == <<"m", "e", "t", "a">>

contractToProtocol ==
    (WethKey :> [name |-> WethName, tier |-> 1])
        @@ (OneInchKey :> [name |-> OneInchName, tier |-> 2])
        @@ (CurveKey :> [name |-> CurveName, tier |-> 1])
        @@ (MetamaskKey :> [name |-> MetamaskName, tier |-> 3])

\* knowledgeBase.contractToProtocol[key], Null when the table has no such key
knownContractOf(key) ==
    IF key \in DOMAIN contractToProtocol THEN contractToProtocol[key] ELSE Null

\* the risk of a tier of the table
tierRisk(tier) == IF tier = 1 THEN "low" ELSE IF tier = 2 THEN "low" ELSE "medium"

\* names of knowledgeBase.trustedProtocols
UniswapName == <<"u", "n", "i">>
AaveName == <<"a", "a", "v", "e">>
YearnName == <<"y", "e", "a", "r", "n">>
FraxName == <<"f", "r", "a", "x">>

trustedProtocols ==
    [tier1 |-> {AaveName, UniswapName, CurveName, WethName},
     tier2 |-> {YearnName, OneInchName},
     tier3 |-> {FraxName}]

\* the input data of a transaction: absent, the empty call data "0x", a
\* call of the swap selector 0x38ed1739, a call of the repay selector
\* 0x573ade81, another call with more than ten characters of data
Inputs == {"absent", "0x", "swap", "repay", "call"}

\* categorizeTransaction(tx): the interaction, or Null; an absent
\* to_address is the empty string
categorizeTransaction(tx) ==
    IF tx.to_address = <<>> THEN Null
    ELSE LET toAddress == toLowerCase(tx.to_address)
             knownContract == knownContractOf(toAddress)
         IN  IF knownContract # Null
             THEN [protocol |-> knownContract.name,
                   riskLevel |-> tierRisk(knownContract.tier)]
             ELSE IF includes(toAddress, UniswapName) \/ tx.input = "swap"
             THEN [protocol |-> UniswapName, riskLevel |-> "low"]
             ELSE IF includes(toAddress, AaveName) \/ tx.input = "repay"
             THEN [protocol |-> AaveName, riskLevel |-> "low"]
             ELSE IF tx.input \in {"swap", "repay", "call"}
             THEN [protocol |-> toAddress, riskLevel |-> "medium"]
             ELSE Null

\* assessProtocolRisk(protocol)
assessProtocolRisk(protocol) ==
    LET protocolLower == toLowerCase(protocol)
        knownContract == knownContractOf(protocolLower)
    IN  IF knownContract # Null THEN tierRisk(knownContract.tier)
        ELSE IF \E q \in trustedProtocols.tier1 : includes(protocolLower, q) THEN "low"
        ELSE IF \E q \in trustedProtocols.tier2 : includes(protocolLower, q) THEN "low"
        ELSE IF \E q \in trustedProtocols.tier3 : includes(protocolLower, q) THEN "medium"
        ELSE "high"

\* the sender of the transactions, and the targets: none, the sender
\* itself, the keys of the table as the table writes them, in lower case
\* and in capitals, and an address the table does not list
Sender == <<"f", "e">>
UnlistedAddress == <<"9", "9", "d">>
Targets ==
    {<<>>, Sender, UnlistedAddress,
     WethKey, <<"C", "0", "2", "A">>, OneInchKey,
     CurveKey, toLowerCase(CurveKey), MetamaskKey, toLowerCase(MetamaskKey)}

\* the loop of extractProtocolData over the transactions from index i on
RECURSIVE extractLoop(_, _, _, _)
extractLoop(transactions, i, protocolInteractions, riskTransactions) ==
    IF i > Len(transactions)
    THEN [protocolInteractions |-> protocolInteractions,
          riskTransactions |-> riskTransactions]
    ELSE LET tx == transactions[i]
             interaction == categorizeTransaction(tx)
             txValue == (tx.value * ethPriceUsd) \div 10
             enhancedInteraction ==
                 [riskLevel |-> interaction.riskLevel,
                  value_usd |-> txValue,
                  is_failed |-> (tx.receipt_status = "0")]
             flagged ==
                 [riskLevel |-> enhancedInteraction.riskLevel,
                  value_usd |-> txValue,
                  is_failed |-> enhancedInteraction.is_failed,
                  tx_hash |-> tx.transaction_hash]
         IN  IF tx.to_address = <<>> \/ tx.to_address = tx.from_address
                    \/ interaction = Null
             THEN extractLoop(transactions, i + 1, protocolInteractions, riskTransactions)
             ELSE extractLoop(transactions, i + 1,
                     Append(protocolInteractions, enhancedInteraction),
                     IF isHighRiskTransaction(enhancedInteraction, txValue)
                     THEN Append(riskTransactions, flagged)
                     ELSE riskTransactions)

\* extractProtocolData: the interactions and the high-risk list taken from
\* the first transactions of the record
extractProtocolData(transactions) ==
    extractLoop(SubSeq(transactions, 1, Min(Len(transactions), AnalyzedTransactions)),
                1, <<>>, <<>>)

\* values of a transaction worth $0, $997.50, $1,000, $1,002.50, $10,000,
\* $10,002.50 and $50,000
TransactionValues == {0, 399, 400, 401, 4000, 4001, 20000}

Transactions(h) ==
    {[to_address |-> to, from_address |-> Sender, input |-> inp, value |-> v,
      receipt_status |-> st, transaction_hash |-> h] :
        to \in Targets, inp \in Inputs, v \in TransactionValues,
        st \in {"0", "1", "none"}}

TransactionLists ==
    {<<>>} \cup {<<t>> : t \in Transactions(1)}
        \cup {<<t, u>> : t \in Transactions(1),
                u \in {x \in Transactions(2) :
                          /\ x.to_address \in {WethKey, UnlistedAddress}
                          /\ x.input \in {"absent", "call"}
                          /\ x.value \in {401, 4001}}}

ProtocolRiskLevels == {"low", "medium", "high"}
UsdValues == {0, 99999, 100000, 100001, 999999, 1000000, 1000001, 5000000}

\* isHighRiskTransaction(interaction, valueUsd)
IsHighRiskTransactionCall ==
    /\ arg = Null
    /\ \E level \in ProtocolRiskLevels, failed \in BOOLEAN, valueUsd \in UsdValues :
         LET interaction ==
                 [riskLevel |-> level, value_usd |-> valueUsd, is_failed |-> failed]
         IN  /\ arg' = [fn |-> "isHighRiskTransaction", interaction |-> interaction,
                        valueUsd |-> valueUsd]
             /\ ret' = isHighRiskTransaction(interaction, valueUsd)
    /\ UNCHANGED <<orchVars, prev, fileVars, narr, auxVars>>

\* extractProtocolData(walletData) on a record with the given transactions
ExtractProtocolDataCall ==
    /\ arg = Null
    /\ \E transactions \in TransactionLists :
         /\ Len(transactions) <= MaxTransactions
         /\ arg' = [fn |-> "extractProtocolData", transactions |-> transactions]
         /\ ret' = extractProtocolData(transactions)
    /\ UNCHANGED <<orchVars, prev, fileVars, narr, auxVars>>

\* names of protocols of DeFi positions: trusted names as the provider
\* writes them, a name that contains none, and addresses given as names
ProtocolNames ==
    {<<"A", "a", "v", "e">>, <<"F", "r", "a", "x", "2">>, YearnName, FraxName,
     <<"z", "z">>, UnlistedAddress, WethKey, CurveKey, MetamaskKey}

\* categorizeTransaction(tx)
CategorizeTransactionCall ==
    /\ arg = Null
    /\ \E tx \in Transactions(1) :
         /\ arg' = [fn |-> "categorizeTransaction", tx |-> tx]
         /\ ret' = categorizeTransaction(tx)
    /\ UNCHANGED <<orchVars, prev, fileVars, narr, auxVars>>

\* assessProtocolRisk(protocol), as extractProtocolData calls it for the
\* protocol of a DeFi position
AssessProtocolRiskCall ==
    /\ arg = Null
    /\ \E protocol \in ProtocolNames :
         /\ arg' = [fn |-> "assessProtocolRisk", protocol |-> toLowerCase(protocol)]
         /\ ret' = assessProtocolRisk(toLowerCase(protocol))
    /\ UNCHANGED <<orchVars, prev, fileVars, narr, auxVars>>

NextRisk ==
    \/ IsHighRiskTransactionCall
    \/ ExtractProtocolDataCall
    \/ CategorizeTransactionCall
    \/ AssessProtocolRiskCall

SpecRisk == Init /\ [][NextRisk]_vars

\* the condition of the high-risk list, for a value in cents
onHighRiskList(valueUsd, tier, failed) ==
    \/ valueUsd > 1000000 /\ tier = "high"
    \/ valueUsd > 100000 /\ tier = "high" /\ failed
    \/ valueUsd > 100000 /\ failed

\* C20: an interaction is put on the high-risk list iff (valueUsd > 10,000
\* and tier = high) or (valueUsd > 1,000 and tier = high and failed) or
\* (valueUsd > 1,000 and failed), for every value, tier and failure flag.
C20_HighRiskListIffRule ==
    /\ (arg # Null /\ arg.fn = "isHighRiskTransaction") =>
          (ret <=> onHighRiskList(arg.valueUsd, arg.interaction.riskLevel,
                                  arg.interaction.is_failed))
    /\ (arg # Null /\ arg.fn = "extractProtocolData") =>
          LET listed == ret.riskTransactions
              rule(i) == onHighRiskList(i.value_usd, i.riskLevel, i.is_failed)
          IN  [k \in 1..Len(listed) |->
                  [riskLevel |-> listed[k].riskLevel,
                   value_usd |-> listed[k].value_usd,
                   is_failed |-> listed[k].is_failed]]
                  = SelectSeq(ret.protocolInteractions, rule)

\* an extraction of two interactions of which only the second, a failed one
\* worth $1,002.50, is on the high-risk list
C20_Witness ==
    /\ arg # Null
    /\ arg.fn = "extractProtocolData"
    /\ Len(ret.protocolInteractions) = 2
    /\ Len(ret.riskTransactions) = 1
    /\ ret.riskTransactions[1].tx_hash = 2
    /\ ret.riskTransactions[1].value_usd = 100250
    /\ ret.riskTransactions[1].is_failed

\* the target is an address of the table, in whatever letter case
listedAddress(target) ==
    \E k \in DOMAIN contractToProtocol : toLowerCase(k) = toLowerCase(target)

\* the target contains a trusted-protocol name
trustedName(target) ==
    \E q \in trustedProtocols.tier1 \cup trustedProtocols.tier2 \cup trustedProtocols.tier3 :
        includes(toLowerCase(target), q)

\* C21: a target contract or protocol name that matches no known contract
\* address and no trusted-protocol name is given the highest risk tier
\* (high), from a transaction as well as from a DeFi position.
C21_UnmatchedIsHighRisk ==
    /\ (arg # Null /\ arg.fn = "categorizeTransaction"
            /\ arg.tx.to_address # <<>>
            /\ ~listedAddress(arg.tx.to_address) /\ ~trustedName(arg.tx.to_address)
            /\ ret # Null) =>
          ret.riskLevel = "high"
    /\ (arg # Null /\ arg.fn = "assessProtocolRisk"
            /\ ~listedAddress(arg.protocol) /\ ~trustedName(arg.protocol)) =>
          ret = "high"

\* C30: a transaction whose target is an address of the contract-to-protocol
\* table, written in any letter case, is classified with the listed protocol
\* name and the risk of its listed tier, never as an unknown contract.
C30_ListedAddressRecognized ==
    (arg # Null /\ arg.fn = "categorizeTransaction") =>
        \A k \in DOMAIN contractToProtocol :
            toLowerCase(k) = toLowerCase(arg.tx.to_address) =>
                /\ ret # Null
                /\ ret.protocol = contractToProtocol[k].name
                /\ ret.riskLevel = tierRisk(contractToProtocol[k].tier)

(***************************************************************************)
(* Token symbols (specification SpecSymbol).  A symbol is a sequence of    *)
(* characters; a character outside ASCII is written by its code point.     *)
(***************************************************************************)

\* the character classes of normalizeTokenSymbol, in the order of the
\* replacements, each with the letter it becomes (Cyrillic and Greek
\* members only)
symbolReplacements ==
    <<[from |-> {"U+0421"}, to |-> "C"],
      [from |-> {"U+0415", "U+0451"}, to |-> "E"],
      [from |-> {"U+0422", "U+03A4"}, to |-> "T"],
      [from |-> {"U+0410", "U+0391"}, to |-> "A"],
      [from |-> {"U+0397", "U+041D"}, to |-> "H"],
      [from |-> {"U+0420", "U+03A1"}, to |-> "P"],
      [from |-> {"U+041E", "U+039F"}, to |-> "O"],
      [from |-> {"U+0425", "U+03A7"}, to |-> "X"],
      [from |-> {"U+041C", "U+039C"}, to |-> "M"],
      [from |-> {"U+0412", "U+0392"}, to |-> "B"],
      [from |-> {"U+041A", "U+039A"}, to |-> "K"],
      [from |-> {"U+041D", "U+0397"}, to |-> "H"],
      [from |-> {"U+042F", "U+03A1"}, to |-> "R"]>>

\* str.replace(/[class]/g, to)
replaceClass(str, r) ==
    [i \in 1..Len(str) |-> IF str[i] \in r.from THEN r.to ELSE str[i]]

RECURSIVE replaceFrom(_, _)
replaceFrom(str, k) ==
    IF k > Len(symbolReplacements) THEN str
    ELSE replaceFrom(replaceClass(str, symbolReplacements[k]), k + 1)

\* String.prototype.toUpperCase on the characters the symbols use: Latin
\* small letters, and the Cyrillic small letters es, ie, te, a, en, er, o,
\* ha, em, ve, ka
toUpperChar(c) ==
    CASE c = "a" -> "A" [] c = "b" -> "B" [] c = "c" -> "C" [] c = "d" -> "D"
      [] c = "e" -> "E" [] c = "h" -> "H" [] c = "s" -> "S" [] c = "t" -> "T"
      [] c = "u" -> "U" [] c = "x" -> "X"
      [] c = "U+0441" -> "U+0421" [] c = "U+0435" -> "U+0415"
      [] c = "U+0442" -> "U+0422" [] c = "U+0430" -> "U+0410"
      [] c = "U+043D" -> "U+041D" [] c = "U+0440" -> "U+0420"
      [] c = "U+043E" -> "U+041E" [] c = "U+0445" -> "U+0425"
      [] c = "U+043C" -> "U+041C" [] c = "U+0432" -> "U+0412"
      [] c = "U+043A" -> "U+041A"
      [] OTHER -> c

toUpperCase(str) == [i \in 1..Len(str) |-> toUpperChar(str[i])]

\* String.prototype.trim
RECURSIVE trim(_)
trim(str) ==
    IF str = <<>> THEN str
    ELSE IF Head(str) = " " THEN trim(Tail(str))
    ELSE IF str[Len(str)] = " " THEN trim(SubSeq(str, 1, Len(str) - 1))
    ELSE str

normalizeTokenSymbol(symbol) ==
    IF symbol = <<>> THEN <<>> ELSE trim(toUpperCase(replaceFrom(symbol, 1)))

\* some of knowledgeBase.stableTokens and knowledgeBase.establishedTokens:
\* USDC, ETH, cbETH, ETHx
knownTokenSymbols ==
    {<<"U", "S", "D", "C">>, <<"E", "T", "H">>, <<"c", "b", "E", "T", "H">>,
     <<"E", "T", "H", "x">>}

isEstablishedToken(symbol) ==
    \E token \in knownTokenSymbols :
        normalizeTokenSymbol(token) = normalizeTokenSymbol(symbol)

\* the Cyrillic and Greek look-alikes of a Latin letter: of a capital, the
\* capitals of the classes above; of a small letter, the small Cyrillic
\* letter of the same shape
lookalikes(c) ==
    CASE c = "C" -> {"U+0421"} [] c = "E" -> {"U+0415"}
      [] c = "T" -> {"U+0422", "U+03A4"} [] c = "A" -> {"U+0410", "U+0391"}
      [] c = "H" -> {"U+041D", "U+0397"} [] c = "P" -> {"U+0420", "U+03A1"}
      [] c = "O" -> {"U+041E", "U+039F"} [] c = "X" -> {"U+0425", "U+03A7"}
      [] c = "M" -> {"U+041C", "U+039C"} [] c = "B" -> {"U+0412", "U+0392"}
      [] c = "K" -> {"U+041A", "U+039A"} [] c = "R" -> {"U+042F"}
      [] c = "c" -> {"U+0441"} [] c = "e" -> {"U+0435"}
      [] c = "x" -> {"U+0445"}
      [] OTHER -> {}

\* the symbols got from a symbol by replacing some of its letters with
\* look-alikes
spoofsOf(symbol) ==
    {t \in [1..Len(symbol) -> UNION {{symbol[i]} \cup lookalikes(symbol[i]) :
                                        i \in 1..Len(symbol)}] :
        \A i \in 1..Len(symbol) : t[i] \in {symbol[i]} \cup lookalikes(symbol[i])}

\* symbols the provider reports: the known ones, TEST, test, scam, each
\* also with a space in front
ReportedSymbols ==
    LET plain == knownTokenSymbols
                    \cup {<<"T", "E", "S", "T">>, <<"t", "e", "s", "t">>,
                          <<"s", "c", "a", "m">>, <<>>}
    IN  plain \cup {<<" ">> \o p : p \in plain}

\* normalizeTokenSymbol and isEstablishedToken on a symbol and on a spoof
\* of it
NormalizeTokenSymbolCall ==
    /\ arg = Null
    /\ \E symbol \in ReportedSymbols :
         \E spoof \in spoofsOf(symbol) :
            /\ arg' = [fn |-> "normalizeTokenSymbol", symbol |-> symbol, spoof |-> spoof]
            /\ ret' = [symbol |-> normalizeTokenSymbol(symbol),
                       spoof |-> normalizeTokenSymbol(spoof),
                       symbolEstablished |-> isEstablishedToken(symbol),
                       spoofEstablished |-> isEstablishedToken(spoof)]
    /\ UNCHANGED <<orchVars, prev, fileVars, narr, auxVars>>

NextSymbol == NormalizeTokenSymbolCall

SpecSymbol == Init /\ [][NextSymbol]_vars

\* C22: a symbol got from a symbol s by replacing letters among C, E, T, A,
\* H, P, O, X, M, B, K, R, in either letter case, with their Cyrillic or
\* Greek look-alikes normalizes like s, and is recognized as an established
\* token exactly when s is.
C22_LookalikesNormalizeAlike ==
    (arg # Null /\ arg.fn = "normalizeTokenSymbol") =>
        /\ ret.spoof = ret.symbol
        /\ ret.spoofEstablished = ret.symbolEstablished

(***************************************************************************)
(* A wallet's holdings taken through the analyzers with the reasoning      *)
(* service unavailable (specification SpecHoldings).  What the provider    *)
(* returns is, for each chain, whether the native balance is positive and  *)
(* the number of established stablecoins held, then the number of DeFi     *)
(* positions of the eth portfolio and whether there are transactions to    *)
(* protocols.                                                              *)
(***************************************************************************)

DefiAsset ==
    [type |-> "defi", isEstablished |-> TRUE, verified |-> TRUE,
     possibleSpam |-> FALSE, isLikelyAirdrop |-> FALSE, hasLowBalance |-> FALSE,
     scamPattern |-> FALSE]

\* combineMultiChainAssetData(moralisData): chainData gets a key for every
\* chain whose chainInfo is there
combineMultiChainAssetData(moralisData) ==
    LET order == <<"eth", "base", "polygon">>
        chainData == {c \in Chains : moralisData.chain[c] # Null}
        nativeN == SumSeq([i \in 1..3 |->
                      IF order[i] \in chainData /\ moralisData.chain[order[i]].native
                      THEN 1 ELSE 0])
        tokenN == SumSeq([i \in 1..3 |->
                      IF order[i] \in chainData
                      THEN moralisData.chain[order[i]].stablecoins ELSE 0])
    IN  [assets |-> <<[a |-> NativeAsset, n |-> nativeN],
                      [a |-> EstablishedToken, n |-> tokenN],
                      [a |-> DefiAsset, n |-> moralisData.defiPositions]>>,
         assetCount |-> nativeN + tokenN + moralisData.defiPositions,
         multiChain |-> [totalChains |-> Cardinality(chainData)]]

\* the chains on which the wallet holds anything
chainsWithHoldings(moralisData) ==
    {c \in Chains : moralisData.chain[c].native \/ moralisData.chain[c].stablecoins > 0}

HoldingsInputs ==
    {[chain |-> ch, defiPositions |-> d, interactions |-> n] :
        ch \in [Chains -> {[native |-> nat, stablecoins |-> st] :
                              nat \in BOOLEAN, st \in 0..2}],
        d \in {0, 2}, n \in {0, 3}}

\* the data each analyzer derives from what was fetched
holdingsData(moralisData) ==
    [assets |-> combineMultiChainAssetData(moralisData),
     pools |-> IF moralisData.defiPositions = 0 THEN EmptyPoolData
               ELSE ActiveWallet.poolData,
     protocols |-> IF moralisData.interactions = 0 THEN EmptyProtocolData
                   ELSE ActiveWallet.protocolData]

\* fetchAllRawData has returned
HoldingsFetched ==
    /\ arg = Null
    /\ \E moralisData \in HoldingsInputs :
         /\ arg' = [fn |-> "analyzeWallet", moralisData |-> moralisData]
         /\ ret' = [analysis |-> [k \in Kinds |-> Null], final_analysis |-> Null]
    /\ UNCHANGED <<orchVars, prev, fileVars, narr, auxVars>>

\* one analyzer stores its result; the service rejects its call
HoldingsAnalyzed(k) ==
    /\ arg # Null
    /\ arg.fn = "analyzeWallet"
    /\ ret.analysis[k] = Null
    /\ ret' = [ret EXCEPT !.analysis[k] =
                  analyze(k, holdingsData(arg.moralisData)[k], <<[kind |-> "error"]>>).result]
    /\ UNCHANGED <<orchVars, prev, fileVars, narr, auxVars, arg>>

\* generateFinalAnalysis; the service rejects its call
HoldingsFinal ==
    /\ arg # Null
    /\ arg.fn = "analyzeWallet"
    /\ \A k \in Kinds : ret.analysis[k] # Null
    /\ ret.final_analysis = Null
    /\ ret' = [ret EXCEPT !.final_analysis = generateGPTFinalAnalysis(ret, Null)]
    /\ UNCHANGED <<orchVars, prev, fileVars, narr, auxVars, arg>>

NextHoldings ==
    \/ HoldingsFetched
    \/ \E k \in Kinds : HoldingsAnalyzed(k)
    \/ HoldingsFinal

SpecHoldings == Init /\ [][NextHoldings]_vars

\* scenario A: native currency and two established stablecoins, no DeFi
\* position, no interaction with a protocol
scenarioA ==
    /\ arg # Null
    /\ arg.fn = "analyzeWallet"
    /\ \E c \in Chains : arg.moralisData.chain[c].native
    /\ arg.moralisData.chain["eth"].stablecoins + arg.moralisData.chain["base"].stablecoins
          + arg.moralisData.chain["polygon"].stablecoins = 2
    /\ arg.moralisData.defiPositions = 0
    /\ arg.moralisData.interactions = 0

\* C23: in scenario A with the deterministic scores in use, the assets
\* score is at most 30, the pools score is 0, the protocols score is 5, and
\* the overall risk_level is very-low or low.
C23_ScenarioAScores ==
    (scenarioA /\ ret.final_analysis # Null) =>
        /\ ret.analysis["assets"].risk_score <= 30
        /\ ret.analysis["pools"].risk_score = 0
        /\ ret.analysis["protocols"].risk_score = 5
        /\ ret.final_analysis.risk_level \in {"very-low", "low"}

\* C28: the deterministic asset scorer takes the multi-chain bonus of 3
\* points off the score only when the wallet has holdings on more than one
\* chain.
C28_MultiChainBonusNeedsTwoChains ==
    (arg # Null /\ arg.fn = "analyzeWallet" /\ ret.analysis["assets"] # Null) =>
        LET data == combineMultiChainAssetData(arg.moralisData)
        IN  /\ assetAdjustments(data).multiChain \in {0, -3}
            /\ assetAdjustments(data).multiChain = -3 =>
                  Cardinality(chainsWithHoldings(arg.moralisData)) > 1
            /\ ret.analysis["assets"].risk_score =
                  calculateWeightedRiskScore(data)

====
